---- MODULE Spec2Model ----
(***************************************************************************)
(* State-machine model of the task-management API's concurrent core:       *)
(*   - internal/repository/task_repo.go : the cache-aside read path        *)
(*     (GetTasksWithConcurrency), the CRUD methods and cache invalidation; *)
(*   - internal/service/task_service.go : UpdateTask;                      *)
(*   - internal/service/worker.go       : the bounded worker pool;         *)
(*   - the batch endpoint of the HTTP handlers and                         *)
(*     internal/middleware/rate_limit.go : the per-client rate limiter.    *)
(* Go goroutines are processes, one action per blocking or shared-state    *)
(* step.  An unbuffered channel send is a rendezvous with the receiver; a  *)
(* receive on a closed channel yields the zero value.                      *)
(***************************************************************************)
EXTENDS Integers, Sequences, FiniteSets, TLC

\* ------------------------------------------------------------- bounds
MaxCalls == 2
MaxOps == 1
MaxTasks == 2
RaceCalls == 1
MaxItems == 3
MaxCap == 2
MaxIds == 5
MaxBatchSize == 3
RateLimitRequests == 2

\* ------------------------------------------------------------- values
\* A Go pointer or optional value: Nil, or Some(v).
Nil == <<>>
Some(v) == <<v>>

Owners == {"u1", "u2"}
StatusPending == "pending"
StatusInProgress == "in_progress"
StatusCompleted == "completed"
StatusCancelled == "cancelled"
TaskStatus == {StatusPending, StatusInProgress, StatusCompleted, StatusCancelled}

Calls == 1..MaxCalls
Ops == 1..MaxOps
TaskIds == 1..MaxTasks

\* A []models.Task value: the nil slice, or a slice with elements.
NilSlice == [nil |-> TRUE, elems |-> <<>>]
Slice(s) == [nil |-> FALSE, elems |-> s]

\* The filters the callers use: no predicate, and status = completed.
DefaultLimit == 10
FilterAll == [Status |-> Nil, Priority |-> Nil, FromDate |-> Nil, ToDate |-> Nil,
              Limit |-> DefaultLimit, Offset |-> 0]
FilterCompleted == [Status |-> Some(StatusCompleted), Priority |-> Nil, FromDate |-> Nil,
                    ToDate |-> Nil, Limit |-> 1, Offset |-> 0]
Filters == {FilterAll, FilterCompleted}

\* ------------------------------------------------------------- pure functions
\* A status value that is none of the four constants: ?status= binds any
\* string to *TaskStatus.
OddStatus == "pending:priority:2"

\* A string as the sequence of its colon-separated segments (strings.Split(s, ":")).
\* Owner ids are UUIDs and numbers are printed with %d: one segment each.
Segments(s) == IF s = OddStatus THEN <<"pending", "priority", "2">> ELSE <<s>>

\* A key without the owner's identity: one entry per filter for all owners.
getCacheKeyShared(userID, filter) ==
    <<"tasks", "all">>
      \o (IF filter.Status # Nil THEN <<"status">> \o Segments(filter.Status[1]) ELSE <<>>)
      \o (IF filter.Priority # Nil THEN <<"priority", ToString(filter.Priority[1])>> ELSE <<>>)
      \o <<"limit", ToString(filter.Limit), "offset", ToString(filter.Offset)>>

\* getCacheKey: "tasks:<user>[:status:<s>][:priority:<p>]:limit:<l>:offset:<o>",
\* kept as the sequence of its colon-separated segments; %s prints the status
\* as it is.
getCacheKey(userID, filter) ==
    <<"tasks", userID>>
      \o (IF filter.Status # Nil THEN <<"status">> \o Segments(filter.Status[1]) ELSE <<>>)
      \o (IF filter.Priority # Nil THEN <<"priority", ToString(filter.Priority[1])>> ELSE <<>>)
      \o <<"limit", ToString(filter.Limit), "offset", ToString(filter.Offset)>>

\* The keys SCAN matches for the pattern "tasks:<user>*".
MatchesUserPattern(key, userID) == Len(key) >= 2 /\ key[1] = "tasks" /\ key[2] = userID

\* json.Marshal of a task slice: the nil slice encodes as null.
Marshal(tasks) == [null |-> tasks.nil, arr |-> tasks.elems]
\* json.Unmarshal into a nil []models.Task: null leaves the slice nil.
Unmarshal(data) == [nil |-> data.null, elems |-> data.arr]

RECURSIVE SortDesc(_)
SortDesc(S) ==
    IF S = {} THEN <<>>
    ELSE LET m == CHOOSE x \in S : \A y \in S : y <= x
         IN <<m>> \o SortDesc(S \ {m})

Min2(a, b) == IF a < b THEN a ELSE b

\* The rows a query for (userID, filter) selects from table d: the WHERE clause,
\* ORDER BY created_at DESC, LIMIT and OFFSET.  A task's creation time is its id
\* (ids are handed out in creation order).
QueryRows(d, userID, filter) ==
    LET match == {i \in DOMAIN d :
                     /\ d[i].UserID = userID
                     /\ (filter.Status # Nil => d[i].Status = filter.Status[1])
                     /\ (filter.Priority # Nil => d[i].Priority = filter.Priority[1])
                     /\ (filter.FromDate # Nil => d[i].CreatedAt >= filter.FromDate[1])
                     /\ (filter.ToDate # Nil => d[i].CreatedAt <= filter.ToDate[1])}
        ordered == SortDesc(match)
        from == filter.Offset + 1
        to == Min2(Len(ordered), filter.Offset + filter.Limit)
    IN [k \in 1..(IF to >= from THEN to - from + 1 ELSE 0) |-> d[ordered[from + k - 1]]]

\* getTasksFromDB on a successful query: rows appended to a nil slice.
getTasksFromDB(d, userID, filter) ==
    LET rows == QueryRows(d, userID, filter)
    IN IF rows = <<>> THEN NilSlice ELSE Slice(rows)

\* ------------------------------------------------------------- state
VARIABLES
    cacheNil,     \* taskRepository.cache == nil (no Redis client configured)
    db,           \* the tasks table: task id -> row
    nextId,       \* the next fresh task id (uuid.New, in creation order)
    cache,        \* Redis: key -> stored JSON value
    inval,        \* inval[i]: the invalidateUserCache goroutine of the i-th mutation
    cacheOps,     \* number of commands sent to the Redis client
    goroutines,   \* number of goroutines GetTasksWithConcurrency has started
    rpc,          \* per resolve call: position of the caller
    rargs,        \* per resolve call: (userID, filter)
    rctx,         \* per resolve call: the caller's context is cancelled / expired
    rmin,         \* per resolve call on a cache: the number of the last mutation of the
                  \*   owner whose invalidation had completed when the call was issued
    rq,           \* per cache-less resolve call: the number of mutations its query saw
    result,       \* per resolve call: the returned (tasks, err)
    cachepc,      \* cache-branch goroutine position
    cacheval,     \* cache-branch goroutine: value being sent
    dbpc,         \* store-branch goroutine position
    dbval,        \* store-branch goroutine: value being sent
    refill,       \* the `go r.cacheTasks(...)` goroutine: [pc, tasks]
    closerpc,     \* the wg.Wait / close goroutine position
    tasksClosed,  \* tasksChan is closed
    errBuf,       \* errChan buffer (capacity 2)
    errClosed,    \* errChan is closed
    firstErr,     \* the error received by the outer select
    muReaders,    \* number of holders of r.mu.RLock
    op,           \* per service call (CreateTask / UpdateTask / DeleteTask): its position
    maxWorkers,   \* cap(workerPool): the maxWorkers passed to NewTaskWorker
    workerPool,   \* len(workerPool): the occupied slots
    wg,           \* TaskWorker.wg: the outstanding-work counter
    item,         \* per work item: the goroutine started by ProcessTaskAsync
    waitpc,       \* the caller of Wait: its position
    waitSeen,     \* the items whose ProcessTaskAsync had returned when Wait was called
    wctx,         \* the context passed to ProcessTaskAsync / BatchProcessTasks is done
    panicked,     \* a goroutine panicked: the process is gone
    bpc,          \* BatchProcessTasks: position of the caller
    bids,         \* BatchProcessTasks: the taskIDs argument
    bsize,        \* BatchProcessTasks: the batchSize argument
    btarget,      \* BatchProcessTasks: the target status the caller asked for
    group,        \* per batch goroutine: [ids, idx, pc, err]
    bErrBuf,      \* BatchProcessTasks: errChan buffer (capacity len(batches))
    bErrClosed,   \* BatchProcessTasks: errChan is closed
    bErrors,      \* BatchProcessTasks: the errors collected so far
    bret,         \* BatchProcessTasks: the returned error
    hreq,         \* TaskHandler.BatchProcessTasks: the request being handled
    limiter       \* RateLimitMiddleware: the counter key in Redis and the requests

rvars == <<rpc, rargs, rctx, rmin, rq, result, cachepc, cacheval, dbpc, dbval, refill,
           closerpc, tasksClosed, errBuf, errClosed, firstErr, muReaders, goroutines>>
svars == <<cacheNil, db, nextId, cache, inval, cacheOps>>
hvars == <<hreq, limiter>>
ovars == <<op, hvars>>
wvars == <<maxWorkers, workerPool, wg, item, waitpc, waitSeen, wctx, panicked>>
bvars == <<bpc, bids, bsize, btarget, group, bErrBuf, bErrClosed, bErrors, bret>>

\* error values
ErrNil == "nil"
ErrCache == "failed to get from cache"
ErrDB == "failed to query tasks"
ErrCtx == "context canceled"

NoResult == [tasks |-> NilSlice, err |-> <<"none">>]

\* The number of the newest mutation of userID's tasks whose invalidation
\* goroutine has scanned and deleted every matching key (0: none).
LastInvalidated(userID) ==
    LET S == {i \in 1..Len(inval) : inval[i].owner = userID /\ inval[i].pc = "done" /\ inval[i].ok}
    IN IF S = {} THEN 0 ELSE CHOOSE x \in S : \A y \in S : y <= x

\* ------------------------------------------------------------- GetTasksWithConcurrency
\* The call without the `r.cache == nil` test: the channels and the three
\* goroutines whatever the configuration.
ResolveNoNilCheck(c, userID, filter) ==
    /\ rpc[c] = "idle"
    /\ rargs' = [rargs EXCEPT ![c] = [userID |-> userID, filter |-> filter]]
    /\ rmin' = [rmin EXCEPT ![c] = LastInvalidated(userID)]
    /\ rpc' = [rpc EXCEPT ![c] = "select1"]
    /\ cachepc' = [cachepc EXCEPT ![c] = "start"]
    /\ dbpc' = [dbpc EXCEPT ![c] = "start"]
    /\ closerpc' = [closerpc EXCEPT ![c] = "wait"]
    /\ goroutines' = goroutines + 3
    /\ UNCHANGED <<rctx, rq, result, cacheval, dbval, refill, tasksClosed, errBuf, errClosed,
                   firstErr, muReaders>>
    /\ UNCHANGED svars
    /\ UNCHANGED <<ovars, wvars, bvars>>

\* The call is issued.  With no cache the caller queries the store itself;
\* otherwise it makes the channels and starts the three goroutines, then selects.
Resolve(c, userID, filter) ==
    /\ rpc[c] = "idle"
    /\ rargs' = [rargs EXCEPT ![c] = [userID |-> userID, filter |-> filter]]
    /\ rmin' = [rmin EXCEPT ![c] = IF cacheNil THEN 0 ELSE LastInvalidated(userID)]
    /\ IF cacheNil
         THEN /\ rpc' = [rpc EXCEPT ![c] = "direct"]
              /\ UNCHANGED <<cachepc, dbpc, closerpc, goroutines, muReaders>>
         ELSE /\ rpc' = [rpc EXCEPT ![c] = "select1"]
              /\ cachepc' = [cachepc EXCEPT ![c] = "start"]
              /\ dbpc' = [dbpc EXCEPT ![c] = "start"]
              /\ closerpc' = [closerpc EXCEPT ![c] = "wait"]
              /\ goroutines' = goroutines + 3
              /\ UNCHANGED muReaders
    /\ UNCHANGED <<rctx, rq, result, cacheval, dbval, refill, tasksClosed, errBuf, errClosed,
                   firstErr>>
    /\ UNCHANGED svars
    /\ UNCHANGED <<ovars, wvars, bvars>>

\* cache == nil: return r.getTasksFromDB(ctx, userID, filter)
ResolveDirect(c, fail) ==
    /\ rpc[c] = "direct"
    /\ result' = [result EXCEPT ![c] =
                    IF fail \/ rctx[c]
                      THEN [tasks |-> NilSlice, err |-> <<ErrDB>>]
                      ELSE [tasks |-> getTasksFromDB(db, rargs[c].userID, rargs[c].filter),
                            err |-> Nil]]
    /\ rq' = [rq EXCEPT ![c] = Len(inval)]
    /\ rpc' = [rpc EXCEPT ![c] = "done"]
    /\ UNCHANGED <<rargs, rctx, rmin, cachepc, cacheval, dbpc, dbval, refill, closerpc,
                   tasksClosed, errBuf, errClosed, firstErr, muReaders, goroutines>>
    /\ UNCHANGED svars
    /\ UNCHANGED <<ovars, wvars, bvars>>

\* getTasksFromCache: the outcome of cache.Get and json.Unmarshal.
\*   [err |-> e, tasks |-> t, present |-> the key was found]; a missing key
\*   (redis.Nil) is (nil, nil).
getTasksFromCache(userID, filter, fail) ==
    LET key == getCacheKey(userID, filter)
    IN IF fail THEN [err |-> ErrCache, tasks |-> NilSlice, present |-> FALSE]
       ELSE IF key \notin DOMAIN cache THEN [err |-> ErrNil, tasks |-> NilSlice, present |-> FALSE]
       ELSE [err |-> ErrNil, tasks |-> Unmarshal(cache[key]), present |-> TRUE]

\* The cache branch sends a hit to tasksChan, anything else (an error, or a nil
\* error for a miss) to errChan:  if err == nil && cachedTasks != nil.
CacheBranchHit(got) == got.err = ErrNil /\ ~got.tasks.nil

\* Goroutine 1, up to its send: RLock, getTasksFromCache.
CacheLookup(c, fail) ==
    /\ cachepc[c] = "start"
    /\ LET got == getTasksFromCache(rargs[c].userID, rargs[c].filter, fail \/ rctx[c])
       IN /\ cacheval' = [cacheval EXCEPT ![c] = got]
          /\ cachepc' = [cachepc EXCEPT ![c] = IF CacheBranchHit(got) THEN "sendT" ELSE "sendE"]
    /\ muReaders' = muReaders + 1
    /\ cacheOps' = cacheOps + 1
    /\ UNCHANGED <<rpc, rargs, rctx, rmin, rq, result, dbpc, dbval, refill, closerpc,
                   tasksClosed, errBuf, errClosed, firstErr, goroutines>>
    /\ UNCHANGED <<cacheNil, db, nextId, cache, inval>>
    /\ UNCHANGED <<ovars, wvars, bvars>>

\* Goroutine 1: errChan <- err (buffered, never blocks), RUnlock, wg.Done.
CacheSendErr(c) ==
    /\ cachepc[c] = "sendE"
    /\ Len(errBuf[c]) < 2
    /\ errBuf' = [errBuf EXCEPT ![c] = Append(@, cacheval[c].err)]
    /\ cachepc' = [cachepc EXCEPT ![c] = "done"]
    /\ muReaders' = muReaders - 1
    /\ UNCHANGED <<rpc, rargs, rctx, rmin, rq, result, cacheval, dbpc, dbval, refill, closerpc,
                   tasksClosed, errClosed, firstErr, goroutines>>
    /\ UNCHANGED svars
    /\ UNCHANGED <<ovars, wvars, bvars>>

\* A store branch that does not start the write-back.
DBQueryNoRefill(c, fail) ==
    /\ dbpc[c] = "start"
    /\ IF fail \/ rctx[c]
         THEN /\ dbpc' = [dbpc EXCEPT ![c] = "sendE"]
              /\ dbval' = [dbval EXCEPT ![c] = [tasks |-> NilSlice, err |-> ErrDB]]
         ELSE LET t == getTasksFromDB(db, rargs[c].userID, rargs[c].filter)
              IN /\ dbpc' = [dbpc EXCEPT ![c] = "sendT"]
                 /\ dbval' = [dbval EXCEPT ![c] = [tasks |-> t, err |-> ErrNil]]
    /\ UNCHANGED <<refill, goroutines>>
    /\ UNCHANGED <<rpc, rargs, rctx, rmin, rq, result, cachepc, cacheval, closerpc,
                   tasksClosed, errBuf, errClosed, firstErr, muReaders>>
    /\ UNCHANGED svars
    /\ UNCHANGED <<ovars, wvars, bvars>>

\* Goroutine 2, up to its send: getTasksFromDB, and on success `go r.cacheTasks`.
DBQuery(c, fail) ==
    /\ dbpc[c] = "start"
    /\ IF fail \/ rctx[c]
         THEN /\ dbpc' = [dbpc EXCEPT ![c] = "sendE"]
              /\ dbval' = [dbval EXCEPT ![c] = [tasks |-> NilSlice, err |-> ErrDB]]
              /\ UNCHANGED <<refill, goroutines>>
         ELSE LET t == getTasksFromDB(db, rargs[c].userID, rargs[c].filter)
              IN /\ dbpc' = [dbpc EXCEPT ![c] = "sendT"]
                 /\ dbval' = [dbval EXCEPT ![c] = [tasks |-> t, err |-> ErrNil]]
                 /\ refill' = [refill EXCEPT ![c] = [pc |-> "pending", tasks |-> t]]
                 /\ goroutines' = goroutines + 1
    /\ UNCHANGED <<rpc, rargs, rctx, rmin, rq, result, cachepc, cacheval, closerpc,
                   tasksClosed, errBuf, errClosed, firstErr, muReaders>>
    /\ UNCHANGED svars
    /\ UNCHANGED <<ovars, wvars, bvars>>

\* Goroutine 2: errChan <- err, wg.Done.
DBSendErr(c) ==
    /\ dbpc[c] = "sendE"
    /\ Len(errBuf[c]) < 2
    /\ errBuf' = [errBuf EXCEPT ![c] = Append(@, dbval[c].err)]
    /\ dbpc' = [dbpc EXCEPT ![c] = "done"]
    /\ UNCHANGED <<rpc, rargs, rctx, rmin, rq, result, cachepc, cacheval, dbval, refill, closerpc,
                   tasksClosed, errClosed, firstErr, muReaders, goroutines>>
    /\ UNCHANGED svars
    /\ UNCHANGED <<ovars, wvars, bvars>>

\* cacheTasks: json.Marshal and cache.Set with the 5 minute TTL.  The command
\* fails when Redis does or when ctx is already cancelled.
CacheTasks(c, fail) ==
    /\ refill[c].pc = "pending"
    /\ IF fail \/ rctx[c]
           THEN /\ refill' = [refill EXCEPT ![c].pc = "failed"]
                /\ UNCHANGED cache
           ELSE LET key == getCacheKey(rargs[c].userID, rargs[c].filter)
                IN /\ cache' = [k \in DOMAIN cache \cup {key} |->
                                   IF k = key THEN Marshal(refill[c].tasks) ELSE cache[k]]
                   /\ refill' = [refill EXCEPT ![c].pc = "stored"]
    /\ cacheOps' = cacheOps + 1
    /\ UNCHANGED <<rpc, rargs, rctx, rmin, rq, result, cachepc, cacheval, dbpc, dbval, closerpc,
                   tasksClosed, errBuf, errClosed, firstErr, muReaders, goroutines>>
    /\ UNCHANGED <<cacheNil, db, nextId, inval>>
    /\ UNCHANGED <<ovars, wvars, bvars>>

\* A closer that does not wait for the two branches.
CloseTasksChanEarly(c) ==
    /\ closerpc[c] = "wait"
    /\ tasksClosed' = [tasksClosed EXCEPT ![c] = TRUE]
    /\ closerpc' = [closerpc EXCEPT ![c] = "closeErr"]
    /\ UNCHANGED <<rpc, rargs, rctx, rmin, rq, result, cachepc, cacheval, dbpc, dbval, refill,
                   errBuf, errClosed, firstErr, muReaders, goroutines>>
    /\ UNCHANGED svars
    /\ UNCHANGED <<ovars, wvars, bvars>>

\* The third goroutine: wg.Wait(), close(tasksChan), close(errChan).
CloseTasksChan(c) ==
    /\ closerpc[c] = "wait"
    /\ cachepc[c] = "done" /\ dbpc[c] = "done"
    /\ tasksClosed' = [tasksClosed EXCEPT ![c] = TRUE]
    /\ closerpc' = [closerpc EXCEPT ![c] = "closeErr"]
    /\ UNCHANGED <<rpc, rargs, rctx, rmin, rq, result, cachepc, cacheval, dbpc, dbval, refill,
                   errBuf, errClosed, firstErr, muReaders, goroutines>>
    /\ UNCHANGED svars
    /\ UNCHANGED <<ovars, wvars, bvars>>

CloseErrChan(c) ==
    /\ closerpc[c] = "closeErr"
    /\ errClosed' = [errClosed EXCEPT ![c] = TRUE]
    /\ closerpc' = [closerpc EXCEPT ![c] = "done"]
    /\ UNCHANGED <<rpc, rargs, rctx, rmin, rq, result, cachepc, cacheval, dbpc, dbval, refill,
                   tasksClosed, errBuf, firstErr, muReaders, goroutines>>
    /\ UNCHANGED svars
    /\ UNCHANGED <<ovars, wvars, bvars>>

\* The caller's select: case tasks := <-tasksChan, from the cache branch.
RecvFromCache(c) ==
    /\ rpc[c] \in {"select1", "select2"}
    /\ cachepc[c] = "sendT"
    /\ result' = [result EXCEPT ![c] = [tasks |-> cacheval[c].tasks, err |-> Nil]]
    /\ rpc' = [rpc EXCEPT ![c] = "done"]
    /\ cachepc' = [cachepc EXCEPT ![c] = "done"]
    /\ muReaders' = muReaders - 1
    /\ UNCHANGED <<rargs, rctx, rmin, rq, cacheval, dbpc, dbval, refill, closerpc,
                   tasksClosed, errBuf, errClosed, firstErr, goroutines>>
    /\ UNCHANGED svars
    /\ UNCHANGED <<ovars, wvars, bvars>>

\* case tasks := <-tasksChan, from the store branch.
RecvFromDB(c) ==
    /\ rpc[c] \in {"select1", "select2"}
    /\ dbpc[c] = "sendT"
    /\ result' = [result EXCEPT ![c] = [tasks |-> dbval[c].tasks, err |-> Nil]]
    /\ rpc' = [rpc EXCEPT ![c] = "done"]
    /\ dbpc' = [dbpc EXCEPT ![c] = "done"]
    /\ UNCHANGED <<rargs, rctx, rmin, rq, cachepc, cacheval, dbval, refill, closerpc,
                   tasksClosed, errBuf, errClosed, firstErr, muReaders, goroutines>>
    /\ UNCHANGED svars
    /\ UNCHANGED <<ovars, wvars, bvars>>

\* case tasks := <-tasksChan on the closed channel: the zero value, a nil slice.
RecvClosedTasks(c) ==
    /\ rpc[c] \in {"select1", "select2"}
    /\ tasksClosed[c]
    /\ result' = [result EXCEPT ![c] = [tasks |-> NilSlice, err |-> Nil]]
    /\ rpc' = [rpc EXCEPT ![c] = "done"]
    /\ UNCHANGED <<rargs, rctx, rmin, rq, cachepc, cacheval, dbpc, dbval, refill, closerpc,
                   tasksClosed, errBuf, errClosed, firstErr, muReaders, goroutines>>
    /\ UNCHANGED svars
    /\ UNCHANGED <<ovars, wvars, bvars>>

\* What a receive on errChan yields: the oldest buffered error, or the zero
\* value once the channel is closed and drained.
ErrChanReady(c) == errBuf[c] # <<>> \/ errClosed[c]
ErrChanHead(c) == IF errBuf[c] # <<>> THEN Head(errBuf[c]) ELSE ErrNil
ErrChanRest(c) == IF errBuf[c] # <<>> THEN Tail(errBuf[c]) ELSE <<>>

\* A fail-fast outer select: the first error received ends the call.
RecvErrFailFast(c) ==
    /\ rpc[c] = "select1"
    /\ ErrChanReady(c)
    /\ errBuf' = [errBuf EXCEPT ![c] = ErrChanRest(c)]
    /\ result' = [result EXCEPT ![c] = [tasks |-> NilSlice, err |-> <<ErrChanHead(c)>>]]
    /\ rpc' = [rpc EXCEPT ![c] = "done"]
    /\ UNCHANGED <<rargs, rctx, rmin, rq, cachepc, cacheval, dbpc, dbval, refill, closerpc,
                   tasksClosed, errClosed, firstErr, muReaders, goroutines>>
    /\ UNCHANGED svars
    /\ UNCHANGED <<ovars, wvars, bvars>>

\* Outer select, case err := <-errChan.
RecvErr(c) ==
    /\ rpc[c] = "select1"
    /\ ErrChanReady(c)
    /\ errBuf' = [errBuf EXCEPT ![c] = ErrChanRest(c)]
    /\ IF Len(ErrChanRest(c)) = 2
         THEN /\ result' = [result EXCEPT ![c] =
                    [tasks |-> NilSlice,
                     err |-> <<"both cache and DB failed", ErrChanHead(c)>>]]
              /\ rpc' = [rpc EXCEPT ![c] = "done"]
              /\ UNCHANGED firstErr
         ELSE /\ firstErr' = [firstErr EXCEPT ![c] = ErrChanHead(c)]
              /\ rpc' = [rpc EXCEPT ![c] = "select2"]
              /\ UNCHANGED result
    /\ UNCHANGED <<rargs, rctx, rmin, rq, cachepc, cacheval, dbpc, dbval, refill, closerpc,
                   tasksClosed, errClosed, muReaders, goroutines>>
    /\ UNCHANGED svars
    /\ UNCHANGED <<ovars, wvars, bvars>>

\* Inner select, case err2 := <-errChan.
RecvErr2(c) ==
    /\ rpc[c] = "select2"
    /\ ErrChanReady(c)
    /\ errBuf' = [errBuf EXCEPT ![c] = ErrChanRest(c)]
    /\ result' = [result EXCEPT ![c] =
           [tasks |-> NilSlice, err |-> <<"failed to get tasks", firstErr[c], ErrChanHead(c)>>]]
    /\ rpc' = [rpc EXCEPT ![c] = "done"]
    /\ UNCHANGED <<rargs, rctx, rmin, rq, cachepc, cacheval, dbpc, dbval, refill, closerpc,
                   tasksClosed, errClosed, firstErr, muReaders, goroutines>>
    /\ UNCHANGED svars
    /\ UNCHANGED <<ovars, wvars, bvars>>

\* Outer select, case <-ctx.Done().
RecvCtxDone(c) ==
    /\ rpc[c] = "select1"
    /\ rctx[c]
    /\ result' = [result EXCEPT ![c] = [tasks |-> NilSlice, err |-> <<ErrCtx>>]]
    /\ rpc' = [rpc EXCEPT ![c] = "done"]
    /\ UNCHANGED <<rargs, rctx, rmin, rq, cachepc, cacheval, dbpc, dbval, refill, closerpc,
                   tasksClosed, errBuf, errClosed, firstErr, muReaders, goroutines>>
    /\ UNCHANGED svars
    /\ UNCHANGED <<ovars, wvars, bvars>>

\* The caller's context is cancelled or its deadline passes.
CancelCtx(c) ==
    /\ rpc[c] # "idle"
    /\ ~rctx[c]
    /\ rctx' = [rctx EXCEPT ![c] = TRUE]
    /\ UNCHANGED <<rpc, rargs, rmin, rq, result, cachepc, cacheval, dbpc, dbval, refill, closerpc,
                   tasksClosed, errBuf, errClosed, firstErr, muReaders, goroutines>>
    /\ UNCHANGED svars
    /\ UNCHANGED <<ovars, wvars, bvars>>

\* A cache entry reaches its TTL.
CacheExpire(key) ==
    /\ key \in DOMAIN cache
    /\ cache' = [k \in DOMAIN cache \ {key} |-> cache[k]]
    /\ UNCHANGED <<cacheNil, db, nextId, inval, cacheOps>>
    /\ UNCHANGED rvars
    /\ UNCHANGED <<ovars, wvars, bvars>>

\* ------------------------------------------------------------- store mutations
\* The row the UPDATE statement of taskRepository.Update writes: every column
\* but id, user_id and created_at comes from the task passed in.
UpdatedRow(row, task) ==
    [row EXCEPT !.Title = task.Title, !.Status = task.Status,
                !.Priority = task.Priority, !.CompletedAt = task.CompletedAt]

\* The table after taskRepository.Update(task) found its row.
RepoUpdate(d, task) ==
    [d EXCEPT ![task.ID] = UpdatedRow(d[task.ID], task)]

\* FindByID: (nil, nil) when no row has the id.
FindByID(d, id) == IF id \in DOMAIN d THEN Some(d[id]) ELSE Nil

\* `go r.invalidateUserCache(ctx, userID)` after a successful mutation.  The
\* goroutine first tests r.cache == nil and returns at once without a cache.
SpawnInvalidation(userID) ==
    inval' = Append(inval, [owner |-> userID, pc |-> IF cacheNil THEN "done" ELSE "scan",
                            keys |-> {}, ok |-> TRUE, ctx |-> FALSE])

\* invalidateUserCache: SCAN for the user's pattern.  A failing SCAN (Redis
\* down, ctx cancelled) ends the loop before any key is deleted.
InvalidateScan(i, fail) ==
    /\ inval[i].pc = "scan"
    /\ cacheOps' = cacheOps + 1
    /\ IF fail \/ inval[i].ctx
         THEN inval' = [inval EXCEPT ![i].pc = "done", ![i].ok = FALSE]
         ELSE LET ks == {k \in DOMAIN cache : MatchesUserPattern(k, inval[i].owner)}
              IN inval' = [inval EXCEPT ![i].keys = ks,
                              ![i].pc = IF ks = {} THEN "done" ELSE "del"]
    /\ UNCHANGED <<cacheNil, db, nextId, cache>>
    /\ UNCHANGED <<rvars, ovars, wvars, bvars>>

\* invalidateUserCache: r.cache.Del(ctx, iter.Val()) for one scanned key; its
\* error is ignored.
InvalidateDel(i, fail) ==
    /\ inval[i].pc = "del"
    /\ \E key \in inval[i].keys :
         LET rest == inval[i].keys \ {key}
             failed == fail \/ inval[i].ctx
         IN /\ cache' = IF failed THEN cache
                        ELSE [k \in DOMAIN cache \ {key} |-> cache[k]]
            /\ inval' = [inval EXCEPT ![i].keys = rest,
                             ![i].ok = @ /\ ~failed,
                             ![i].pc = IF rest = {} THEN "done" ELSE "del"]
    /\ cacheOps' = cacheOps + 1
    /\ UNCHANGED <<cacheNil, db, nextId>>
    /\ UNCHANGED <<rvars, ovars, wvars, bvars>>

\* The context the mutation ran under is cancelled while its invalidation runs.
CancelInvalidationCtx(i) ==
    /\ inval[i].pc # "done"
    /\ ~inval[i].ctx
    /\ inval' = [inval EXCEPT ![i].ctx = TRUE]
    /\ UNCHANGED <<cacheNil, db, nextId, cache, cacheOps>>
    /\ UNCHANGED <<rvars, ovars, wvars, bvars>>

\* ------------------------------------------------------------- service calls
NoTask == [ID |-> 0, UserID |-> "", Title |-> "", Status |-> "", Priority |-> 0,
           CompletedAt |-> Nil, CreatedAt |-> 0]
IdleOp == [pc |-> "idle", kind |-> "none", task |-> NoTask, err |-> ErrNil]

\* The UpdateTaskRequest values the callers send.
UpdateRequests ==
    {[Title |-> Nil, Status |-> Some(st), Priority |-> Nil] : st \in TaskStatus}
      \cup {[Title |-> Some("t2"), Status |-> Nil, Priority |-> Nil]}

\* taskService.UpdateTask: the fields of the request that are provided
\* overwrite the task read from the store.
ApplyRequest(task, req) ==
    [task EXCEPT !.Title = IF req.Title # Nil THEN req.Title[1] ELSE @,
                 !.Status = IF req.Status # Nil THEN req.Status[1] ELSE @,
                 !.Priority = IF req.Priority # Nil THEN req.Priority[1] ELSE @]

\* taskService.CreateTask and taskRepository.Create: INSERT, then invalidate.
CreateTask(k, userID, fail) ==
    /\ op[k].pc = "idle"
    /\ nextId <= MaxTasks
    /\ IF fail
           THEN /\ op' = [op EXCEPT ![k] = [pc |-> "done", kind |-> "create",
                                            task |-> NoTask, err |-> "failed to create task"]]
                /\ UNCHANGED <<db, nextId, inval>>
           ELSE LET task == [ID |-> nextId, UserID |-> userID, Title |-> "t1",
                             Status |-> StatusPending, Priority |-> 1,
                             CompletedAt |-> Nil, CreatedAt |-> nextId]
                    d == [i \in DOMAIN db \cup {nextId} |-> IF i = nextId THEN task ELSE db[i]]
                IN /\ db' = d
                   /\ nextId' = nextId + 1
                   /\ SpawnInvalidation(userID)
                   /\ op' = [op EXCEPT ![k] = [pc |-> "done", kind |-> "create",
                                               task |-> task, err |-> ErrNil]]
    /\ UNCHANGED <<cacheNil, cache, cacheOps>>
    /\ UNCHANGED <<rvars, wvars, bvars>>
    /\ UNCHANGED hvars

\* taskService.UpdateTask, first half: FindByID and the request's fields.
UpdateTaskFind(k, id, req) ==
    /\ op[k].pc = "idle"
    /\ LET found == FindByID(db, id)
       IN IF found = Nil
            THEN op' = [op EXCEPT ![k] = [pc |-> "done", kind |-> "update",
                                          task |-> NoTask, err |-> "task not found"]]
            ELSE op' = [op EXCEPT ![k] = [pc |-> "found", kind |-> "update",
                                          task |-> ApplyRequest(found[1], req), err |-> ErrNil]]
    /\ UNCHANGED <<svars, rvars, wvars, bvars>>
    /\ UNCHANGED hvars

\* An Update that writes the row back when it is gone (an upsert).
UpdateTaskWriteUpsert(k) ==
    /\ op[k].pc = "found" /\ op[k].kind = "update"
    /\ db' = [i \in DOMAIN db \cup {op[k].task.ID} |->
                 IF i = op[k].task.ID THEN op[k].task ELSE db[i]]
    /\ SpawnInvalidation(op[k].task.UserID)
    /\ op' = [op EXCEPT ![k].pc = "done"]
    /\ UNCHANGED <<cacheNil, nextId, cache, cacheOps>>
    /\ UNCHANGED <<rvars, wvars, bvars>>
    /\ UNCHANGED hvars

\* taskService.UpdateTask, second half: taskRepository.Update.
UpdateTaskWrite(k) ==
    /\ op[k].pc = "found" /\ op[k].kind = "update"
    /\ IF op[k].task.ID \in DOMAIN db
         THEN LET d == RepoUpdate(db, op[k].task)
              IN /\ db' = d
                 /\ SpawnInvalidation(op[k].task.UserID)
                 /\ op' = [op EXCEPT ![k].pc = "done"]
         ELSE /\ op' = [op EXCEPT ![k].pc = "done", ![k].err = "task not found with id"]
              /\ UNCHANGED <<db, inval>>
    /\ UNCHANGED <<cacheNil, nextId, cache, cacheOps>>
    /\ UNCHANGED <<rvars, wvars, bvars>>
    /\ UNCHANGED hvars

\* taskRepository.Delete, first half: FindByID.
DeleteTaskFind(k, id) ==
    /\ op[k].pc = "idle"
    /\ LET found == FindByID(db, id)
       IN IF found = Nil
            THEN op' = [op EXCEPT ![k] = [pc |-> "done", kind |-> "delete",
                                          task |-> NoTask, err |-> "task not found with id"]]
            ELSE op' = [op EXCEPT ![k] = [pc |-> "found", kind |-> "delete",
                                          task |-> found[1], err |-> ErrNil]]
    /\ UNCHANGED <<svars, rvars, wvars, bvars>>
    /\ UNCHANGED hvars

\* taskRepository.Delete, second half: DELETE and the rows-affected check.
DeleteTaskExec(k) ==
    /\ op[k].pc = "found" /\ op[k].kind = "delete"
    /\ IF op[k].task.ID \in DOMAIN db
         THEN LET d == [i \in DOMAIN db \ {op[k].task.ID} |-> db[i]]
              IN /\ db' = d
                 /\ SpawnInvalidation(op[k].task.UserID)
                 /\ op' = [op EXCEPT ![k].pc = "done"]
         ELSE /\ op' = [op EXCEPT ![k].pc = "done", ![k].err = "task not found with id"]
              /\ UNCHANGED <<db, inval>>
    /\ UNCHANGED <<cacheNil, nextId, cache, cacheOps>>
    /\ UNCHANGED <<rvars, wvars, bvars>>
    /\ UNCHANGED hvars

\* ------------------------------------------------------------- the worker pool
\* A work item: the goroutine ProcessTaskAsync starts.
\*   pc: queued (before the slot send) -> processing (slot held, in processTask)
\*       -> terminal (processTask returned) -> released (slot given back) -> done
\*   target: the status the caller asked for;
\*   inval: the invalidation goroutine its Update started on the item's
\*          context (0: none, or none that uses the cache);
\*   updates: the number of repo.Update calls processTask has made for it.
NewItem(task, target) ==
    [pc |-> "queued", task |-> task, target |-> target, outcome |-> "none", inval |-> 0,
     updates |-> 0]

\* A submission that leaves wg.Add to the goroutine it starts: the counter does
\* not yet include the item when the call returns.
ProcessTaskAsyncLateAdd(task, target) ==
    /\ wg' = wg
    /\ item' = Append(item, NewItem(task, target))

\* ProcessTaskAsync: wg.Add(1), then the goroutine is started.
ProcessTaskAsync(task, target) ==
    /\ wg' = wg + 1
    /\ item' = Append(item, NewItem(task, target))

\* A caller submits one item for a task it has just read.
SubmitOne(id, target) ==
    /\ ~panicked
    /\ id \in DOMAIN db
    /\ ProcessTaskAsync(db[id], target)
    /\ UNCHANGED <<maxWorkers, workerPool, waitpc, waitSeen, wctx, panicked>>
    /\ UNCHANGED <<svars, rvars, ovars, bvars>>

\* A goroutine that starts processing without a slot being free.
AcquireSlotUnbounded(i) ==
    /\ ~panicked
    /\ item[i].pc = "queued"
    /\ workerPool' = workerPool + 1
    /\ item' = [item EXCEPT ![i].pc = "processing"]
    /\ UNCHANGED <<maxWorkers, wg, waitpc, waitSeen, wctx, panicked>>
    /\ UNCHANGED <<svars, rvars, ovars, bvars>>

\* w.workerPool <- struct{}{} : blocks while every slot is taken.
AcquireSlot(i) ==
    /\ ~panicked
    /\ item[i].pc = "queued"
    /\ workerPool < maxWorkers
    /\ workerPool' = workerPool + 1
    /\ item' = [item EXCEPT ![i].pc = "processing"]
    /\ UNCHANGED <<maxWorkers, wg, waitpc, waitSeen, wctx, panicked>>
    /\ UNCHANGED <<svars, rvars, ovars, bvars>>

\* processCtx is derived from the caller's ctx (context.WithTimeout(ctx, 30s)):
\* it is done when the caller's ctx is, or when its own deadline has passed.
ProcessCtxDone(expired) == wctx \/ expired

\* A processTask that sets the status and leaves the timestamp alone.
ProcessedTaskNoStamp(task, target) ==
    [task EXCEPT !.Status = StatusCompleted]

\* The task processTask hands to repo.Update.
ProcessedTask(task, target) ==
    [task EXCEPT !.Status = StatusCompleted, !.CompletedAt = Some("now")]

\* A processTask that calls repo.Update again after a failed call.
ProcessApplyRetry(i, fail, expired) ==
    /\ ~panicked
    /\ item[i].pc = "processing"
    /\ item[i].updates < 2
    /\ LET task == ProcessedTask(item[i].task, item[i].target)
           ok == ~fail /\ ~ProcessCtxDone(expired) /\ task.ID \in DOMAIN db
       IN IF ok
            THEN /\ db' = RepoUpdate(db, task)
                 /\ SpawnInvalidation(task.UserID)
                 /\ item' = [item EXCEPT ![i].pc = "terminal", ![i].task = task,
                                 ![i].outcome = "Applied", ![i].updates = @ + 1,
                                 ![i].inval = IF cacheNil THEN 0 ELSE Len(inval) + 1]
            ELSE /\ item' = [item EXCEPT ![i].task = task, ![i].updates = @ + 1,
                                 ![i].pc = IF item[i].updates = 0 THEN "processing"
                                                                 ELSE "terminal",
                                 ![i].outcome = IF item[i].updates = 0 THEN "none"
                                                                      ELSE "Failed"]
                 /\ UNCHANGED <<db, inval>>
    /\ UNCHANGED <<maxWorkers, workerPool, wg, waitpc, waitSeen, wctx, panicked>>
    /\ UNCHANGED <<cacheNil, nextId, cache, cacheOps>>
    /\ UNCHANGED <<rvars, ovars, bvars>>

\* processTask, case <-time.After(100ms): set the status, repo.Update.
\* `expired`: the item's 30 s deadline has passed by the time of the UPDATE.
ProcessApply(i, fail, expired) ==
    /\ ~panicked
    /\ item[i].pc = "processing"
    /\ LET task == ProcessedTask(item[i].task, item[i].target)
           ok == ~fail /\ ~ProcessCtxDone(expired) /\ task.ID \in DOMAIN db
       IN IF ok
            THEN /\ db' = RepoUpdate(db, task)
                 /\ SpawnInvalidation(task.UserID)
                 /\ item' = [item EXCEPT ![i].pc = "terminal", ![i].task = task,
                                 ![i].outcome = "Applied", ![i].updates = @ + 1,
                                 ![i].inval = IF cacheNil THEN 0 ELSE Len(inval) + 1]
            ELSE /\ item' = [item EXCEPT ![i].pc = "terminal", ![i].task = task,
                                 ![i].outcome = "Failed", ![i].updates = @ + 1]
                 /\ UNCHANGED <<db, inval>>
    /\ UNCHANGED <<maxWorkers, workerPool, wg, waitpc, waitSeen, wctx, panicked>>
    /\ UNCHANGED <<cacheNil, nextId, cache, cacheOps>>
    /\ UNCHANGED <<rvars, ovars, bvars>>

\* A timed-out goroutine that ends without running its deferred calls.
ProcessTimeoutNoDefers(i, expired) ==
    /\ ~panicked
    /\ item[i].pc = "processing"
    /\ ProcessCtxDone(expired)
    /\ item' = [item EXCEPT ![i].pc = "done", ![i].outcome = "TimedOut"]
    /\ UNCHANGED <<maxWorkers, workerPool, wg, waitpc, waitSeen, wctx, panicked>>
    /\ UNCHANGED <<svars, rvars, ovars, bvars>>

\* processTask, case <-ctx.Done(): return ctx.Err().
\* `expired`: the item's 30 s deadline has passed.
ProcessTimeout(i, expired) ==
    /\ ~panicked
    /\ item[i].pc = "processing"
    /\ ProcessCtxDone(expired)
    /\ item' = [item EXCEPT ![i].pc = "terminal", ![i].outcome = "TimedOut"]
    /\ UNCHANGED <<maxWorkers, workerPool, wg, waitpc, waitSeen, wctx, panicked>>
    /\ UNCHANGED <<svars, rvars, ovars, bvars>>

\* A goroutine that ends without giving its slot back.
ReleaseSlotLeak(i) ==
    /\ ~panicked
    /\ item[i].pc = "terminal"
    /\ item' = [item EXCEPT ![i].pc = "released"]
    /\ UNCHANGED <<maxWorkers, workerPool, wg, waitpc, waitSeen, wctx, panicked>>
    /\ UNCHANGED <<svars, rvars, ovars, bvars>>

\* The deferred cancel() and <-w.workerPool.  cancel() ends the context the
\* item's Update passed to its invalidation goroutine.
ReleaseSlot(i) ==
    /\ ~panicked
    /\ item[i].pc = "terminal"
    /\ workerPool' = workerPool - 1
    /\ item' = [item EXCEPT ![i].pc = "released"]
    /\ inval' = IF item[i].inval > 0 /\ inval[item[i].inval].pc # "done"
                  THEN [inval EXCEPT ![item[i].inval].ctx = TRUE]
                  ELSE inval
    /\ UNCHANGED <<maxWorkers, wg, waitpc, waitSeen, wctx, panicked>>
    /\ UNCHANGED <<cacheNil, db, nextId, cache, cacheOps>>
    /\ UNCHANGED <<rvars, ovars, bvars>>

\* The defers in the other order: wg.Done() runs while the slot is still held.
ItemDoneEarly(i) ==
    /\ ~panicked
    /\ item[i].pc \in {"terminal", "released"}
    /\ wg' = wg - 1
    /\ item' = [item EXCEPT ![i].pc = "done"]
    /\ UNCHANGED <<maxWorkers, workerPool, waitpc, waitSeen, wctx, panicked>>
    /\ UNCHANGED <<svars, rvars, ovars, bvars>>

\* The deferred w.wg.Done().
ItemDone(i) ==
    /\ ~panicked
    /\ item[i].pc = "released"
    /\ wg' = wg - 1
    /\ item' = [item EXCEPT ![i].pc = "done"]
    /\ UNCHANGED <<maxWorkers, workerPool, waitpc, waitSeen, wctx, panicked>>
    /\ UNCHANGED <<svars, rvars, ovars, bvars>>

\* Wait is called: w.wg.Wait() starts blocking.
WaitCall ==
    /\ ~panicked
    /\ waitpc = "idle"
    /\ waitpc' = "waiting"
    /\ waitSeen' = 1..Len(item)
    /\ UNCHANGED <<maxWorkers, workerPool, wg, item, wctx, panicked>>
    /\ UNCHANGED <<svars, rvars, ovars, bvars>>

\* w.wg.Wait() returns: the counter is zero.
WaitReturn ==
    /\ ~panicked
    /\ waitpc = "waiting"
    /\ wg = 0
    /\ waitpc' = "returned"
    /\ UNCHANGED <<maxWorkers, workerPool, wg, item, waitSeen, wctx, panicked>>
    /\ UNCHANGED <<svars, rvars, ovars, bvars>>

\* The context the caller passed to the worker is cancelled or expires.
CancelWorkerCtx ==
    /\ ~panicked
    /\ ~wctx
    /\ wctx' = TRUE
    /\ UNCHANGED <<maxWorkers, workerPool, wg, item, waitpc, waitSeen, panicked>>
    /\ UNCHANGED <<svars, rvars, ovars, bvars>>

\* ------------------------------------------------------------- BatchProcessTasks
\* A partition that keeps only the full groups.
BatchesFullOnly(ids, batchSize) ==
    [g \in 1..(Len(ids) \div batchSize) |->
        SubSeq(ids, (g - 1) * batchSize + 1, g * batchSize)]

\* The consecutive groups of batchSize ids; the last may be shorter.
Batches(ids, batchSize) ==
    [g \in 1..((Len(ids) + batchSize - 1) \div batchSize) |->
        SubSeq(ids, (g - 1) * batchSize + 1, Min2(g * batchSize, Len(ids)))]

\* BatchProcessTasks is called: the batches, errChan, one goroutine per batch
\* and the goroutine that closes errChan; the caller then ranges over errChan.
BatchProcessTasks(ids, batchSize, target) ==
    /\ ~panicked
    /\ bpc = "idle"
    /\ bpc' = "collect"
    /\ bids' = ids
    /\ bsize' = batchSize
    /\ btarget' = target
    /\ group' = [g \in DOMAIN Batches(ids, batchSize) |->
                    [ids |-> Batches(ids, batchSize)[g], idx |-> 1, pc |-> "run", err |-> ErrNil]]
    /\ UNCHANGED <<bErrBuf, bErrClosed, bErrors, bret>>
    /\ UNCHANGED <<svars, rvars, ovars, wvars>>

\* The position of a batch goroutine after it has dealt with one id.
GroupAdvance(g) ==
    IF group[g].idx + 1 > Len(group[g].ids)
      THEN [group[g] EXCEPT !.idx = @ + 1, !.pc = "done"]
      ELSE [group[g] EXCEPT !.idx = @ + 1, !.pc = "run"]

\* One iteration of a batch goroutine: ctx.Done() wins the select when ready;
\* otherwise FindByID and ProcessTaskAsync(ctx, *task).  FindByID returns
\* (nil, nil) for an id with no row, and *task then panics.
GroupStep(g, fail, limit) ==
    /\ ~panicked
    /\ group[g].pc = "run"
    /\ LET id == group[g].ids[group[g].idx]
           found == FindByID(db, id)
       IN IF wctx
            THEN /\ group' = [group EXCEPT ![g].pc = "sendCtx", ![g].err = ErrCtx]
                 /\ UNCHANGED <<wg, item, panicked>>
          ELSE IF fail
            THEN /\ group' = [group EXCEPT ![g].pc = "sendErr", ![g].err = "failed to find task"]
                 /\ UNCHANGED <<wg, item, panicked>>
          ELSE IF found = Nil
            THEN /\ panicked' = TRUE
                 /\ UNCHANGED <<wg, item, group>>
          ELSE /\ Len(item) < limit
               /\ ProcessTaskAsync(found[1], btarget)
               /\ group' = [group EXCEPT ![g] = GroupAdvance(g)]
               /\ UNCHANGED panicked
    /\ UNCHANGED <<bpc, bids, bsize, btarget, bErrBuf, bErrClosed, bErrors, bret>>
    /\ UNCHANGED <<maxWorkers, workerPool, waitpc, waitSeen, wctx>>
    /\ UNCHANGED <<svars, rvars, ovars>>

\* A batch goroutine that gives up its batch at the first lookup error.
GroupSendAbort(g) ==
    /\ ~panicked
    /\ group[g].pc \in {"sendErr", "sendCtx"}
    /\ Len(bErrBuf) < Len(group)
    /\ bErrBuf' = Append(bErrBuf, group[g].err)
    /\ group' = [group EXCEPT ![g].pc = "done"]
    /\ UNCHANGED <<bpc, bids, bsize, btarget, bErrClosed, bErrors, bret>>
    /\ UNCHANGED <<svars, rvars, ovars, wvars>>

\* errChan <- err : blocks while the buffer (capacity len(batches)) is full.
\* After ctx.Err() the goroutine returns; after a lookup error it continues.
GroupSend(g) ==
    /\ ~panicked
    /\ group[g].pc \in {"sendErr", "sendCtx"}
    /\ Len(bErrBuf) < Len(group)
    /\ bErrBuf' = Append(bErrBuf, group[g].err)
    /\ group' = [group EXCEPT ![g] = IF group[g].pc = "sendCtx"
                                      THEN [group[g] EXCEPT !.pc = "done"]
                                      ELSE GroupAdvance(g)]
    /\ UNCHANGED <<bpc, bids, bsize, btarget, bErrClosed, bErrors, bret>>
    /\ UNCHANGED <<svars, rvars, ovars, wvars>>

\* A closer that does not wait for the batch goroutines.
BatchCloseEarly ==
    /\ ~panicked
    /\ bpc # "idle"
    /\ ~bErrClosed
    /\ bErrClosed' = TRUE
    /\ UNCHANGED <<bpc, bids, bsize, btarget, group, bErrBuf, bErrors, bret>>
    /\ UNCHANGED <<svars, rvars, ovars, wvars>>

\* wg.Wait(); close(errChan)
BatchClose ==
    /\ ~panicked
    /\ bpc # "idle"
    /\ ~bErrClosed
    /\ \A g \in DOMAIN group : group[g].pc = "done"
    /\ bErrClosed' = TRUE
    /\ UNCHANGED <<bpc, bids, bsize, btarget, group, bErrBuf, bErrors, bret>>
    /\ UNCHANGED <<svars, rvars, ovars, wvars>>

\* for err := range errChan : one received error.
BatchCollect ==
    /\ ~panicked
    /\ bpc = "collect"
    /\ bErrBuf # <<>>
    /\ bErrBuf' = Tail(bErrBuf)
    /\ bErrors' = IF Head(bErrBuf) # ErrNil THEN Append(bErrors, Head(bErrBuf)) ELSE bErrors
    /\ UNCHANGED <<bpc, bids, bsize, btarget, group, bErrClosed, bret>>
    /\ UNCHANGED <<svars, rvars, ovars, wvars>>

\* The range loop ends on the closed, drained channel; the aggregate error
\* "batch processing completed with %d errors" is identified by its count.
BatchReturn ==
    /\ ~panicked
    /\ bpc = "collect"
    /\ bErrBuf = <<>> /\ bErrClosed
    /\ bret' = IF Len(bErrors) > 0 THEN ToString(Len(bErrors)) ELSE ErrNil
    /\ bpc' = "done"
    /\ UNCHANGED <<bids, bsize, btarget, group, bErrBuf, bErrClosed, bErrors>>
    /\ UNCHANGED <<svars, rvars, ovars, wvars>>

\* ------------------------------------------------------------- the batch endpoint
\* TaskHandler.BatchProcessTasks.  hreq is the request being handled:
\*   pc: idle -> validate (the loop over req.TaskIDs) -> spawned (the goroutine
\*       that calls the worker is started and 202 is written) or done;
\*   idx: the position of the validation loop; resp: the status written.
\* The request is bound: task_ids is required with at least one element.
HandlerReceive(userID, ids, size) ==
    /\ hreq.pc = "idle"
    /\ hreq' = IF ids = <<>>
                 THEN [pc |-> "done", user |-> userID, ids |-> ids, size |-> size, idx |-> 1,
                       resp |-> "BadRequest"]
                 ELSE [pc |-> "validate", user |-> userID, ids |-> ids, size |-> size,
                       idx |-> 1, resp |-> "none"]
    /\ UNCHANGED <<op, limiter>>
    /\ UNCHANGED <<svars, rvars, wvars, bvars>>

\* A validation loop that skips an id it may not process instead of refusing
\* the request.
HandlerValidateSkip(fail) ==
    /\ hreq.pc = "validate"
    /\ IF fail
         THEN hreq' = [hreq EXCEPT !.pc = "done", !.resp = "InternalServerError"]
         ELSE IF hreq.idx = Len(hreq.ids)
                THEN hreq' = [hreq EXCEPT !.idx = @ + 1, !.pc = "spawned", !.resp = "Accepted"]
                ELSE hreq' = [hreq EXCEPT !.idx = @ + 1]
    /\ UNCHANGED <<op, limiter>>
    /\ UNCHANGED <<svars, rvars, wvars, bvars>>

\* One iteration of the validation loop: GetTask (FindByID), 500 on an error,
\* 403 when the task is missing or another user's.  After the last id the
\* handler starts the goroutine and answers 202.
HandlerValidate(fail) ==
    /\ hreq.pc = "validate"
    /\ LET found == FindByID(db, hreq.ids[hreq.idx])
       IN IF fail
            THEN hreq' = [hreq EXCEPT !.pc = "done", !.resp = "InternalServerError"]
          ELSE IF found = Nil \/ found[1].UserID # hreq.user
            THEN hreq' = [hreq EXCEPT !.pc = "done", !.resp = "Forbidden"]
          ELSE IF hreq.idx = Len(hreq.ids)
            THEN hreq' = [hreq EXCEPT !.idx = @ + 1, !.pc = "spawned", !.resp = "Accepted"]
          ELSE hreq' = [hreq EXCEPT !.idx = @ + 1]
    /\ UNCHANGED <<op, limiter>>
    /\ UNCHANGED <<svars, rvars, wvars, bvars>>

\* The goroutine the handler started calls h.taskWorker.BatchProcessTasks with
\* the request's ids, batch size and status.
HandlerDispatch ==
    /\ hreq.pc = "spawned"
    /\ BatchProcessTasks(hreq.ids, hreq.size, StatusCompleted)

\* ------------------------------------------------------------- the rate limiter
\* RateLimitMiddleware for the requests of one client IP.  limiter.key is the
\* counter "rate_limit:<ip>" in Redis, Nil or Some([val, ttl]) with ttl whether
\* an expiry is set; limiter.gen counts the creations of the key; limiter.req
\* holds one record per request:
\*   pc: expire (about to send EXPIRE) -> check -> done;
\*   current: the value INCR returned; gen: the creation of the key it counted in;
\*   out: Next, TooManyRequests or InternalServerError.
RequestLimit == RateLimitRequests + 2

\* A counter read before the increment: the request gets the old value.
LimiterIncrStale(fail) ==
    /\ Len(limiter.req) < RequestLimit
    /\ IF fail
         THEN limiter' = [limiter EXCEPT !.req = Append(@,
                             [pc |-> "done", current |-> 0, gen |-> 0,
                              out |-> "InternalServerError"])]
         ELSE LET old == IF limiter.key = Nil THEN 0 ELSE limiter.key[1].val
                  g == IF limiter.key = Nil THEN limiter.gen + 1 ELSE limiter.gen
              IN limiter' =
                   [key |-> Some([val |-> old + 1,
                                  ttl |-> limiter.key # Nil /\ limiter.key[1].ttl]),
                    gen |-> g,
                    req |-> Append(limiter.req,
                               [pc |-> IF old = 1 THEN "expire" ELSE "check",
                                current |-> old, gen |-> g, out |-> "none"])]
    /\ UNCHANGED <<op, hreq>>
    /\ UNCHANGED <<svars, rvars, wvars, bvars>>

\* A request arrives and the middleware sends INCR: Redis creates the key at
\* 1 when it is absent, adds one otherwise, atomically, and returns the new
\* value.  An error aborts the request with 500.
LimiterIncr(fail) ==
    /\ Len(limiter.req) < RequestLimit
    /\ IF fail
         THEN limiter' = [limiter EXCEPT !.req = Append(@,
                             [pc |-> "done", current |-> 0, gen |-> 0,
                              out |-> "InternalServerError"])]
         ELSE LET val == IF limiter.key = Nil THEN 1 ELSE limiter.key[1].val + 1
                  g == IF limiter.key = Nil THEN limiter.gen + 1 ELSE limiter.gen
              IN limiter' =
                   [key |-> Some([val |-> val,
                                  ttl |-> limiter.key # Nil /\ limiter.key[1].ttl]),
                    gen |-> g,
                    req |-> Append(limiter.req,
                               [pc |-> IF val = 1 THEN "expire" ELSE "check",
                                current |-> val, gen |-> g, out |-> "none"])]
    /\ UNCHANGED <<op, hreq>>
    /\ UNCHANGED <<svars, rvars, wvars, bvars>>

\* if current == 1 { rdb.Expire(ctx, key, window) } : the result is not looked
\* at.  EXPIRE sets the expiry of the key that exists when it arrives.
LimiterExpire(r, fail) ==
    /\ limiter.req[r].pc = "expire"
    /\ limiter' = [limiter EXCEPT
                      !.key = IF fail \/ limiter.key = Nil THEN @
                              ELSE Some([@[1] EXCEPT !.ttl = TRUE]),
                      !.req[r].pc = "check"]
    /\ UNCHANGED <<op, hreq>>
    /\ UNCHANGED <<svars, rvars, wvars, bvars>>

\* if current > limit : TTL, 429 and Abort; otherwise c.Next().
LimiterCheck(r) ==
    /\ limiter.req[r].pc = "check"
    /\ limiter' = [limiter EXCEPT
                      !.req[r].pc = "done",
                      !.req[r].out = IF limiter.req[r].current > RateLimitRequests
                                       THEN "TooManyRequests" ELSE "Next"]
    /\ UNCHANGED <<op, hreq>>
    /\ UNCHANGED <<svars, rvars, wvars, bvars>>

\* The window of a key with an expiry ends: Redis drops the key.
LimiterKeyExpire ==
    /\ limiter.key # Nil /\ limiter.key[1].ttl
    /\ limiter' = [limiter EXCEPT !.key = Nil]
    /\ UNCHANGED <<op, hreq>>
    /\ UNCHANGED <<svars, rvars, wvars, bvars>>

\* ------------------------------------------------------------- initial states
EmptyCache == [k \in {} |-> Marshal(NilSlice)]
Task1 == [ID |-> 1, UserID |-> "u1", Title |-> "t1", Status |-> StatusPending,
          Priority |-> 1, CompletedAt |-> Nil, CreatedAt |-> 1]
IdleCall == [userID |-> "u1", filter |-> FilterAll]
IdleBranch == [tasks |-> NilSlice, err |-> ErrNil]

\* One task of owner u1 in the table, nothing cached.
InitStore ==
    /\ db = [i \in {1} |-> Task1]
    /\ nextId = 2
    /\ cache = EmptyCache
    /\ inval = <<>>
    /\ cacheOps = 0

InitResolver ==
    /\ rpc = [c \in Calls |-> "idle"]
    /\ rargs = [c \in Calls |-> IdleCall]
    /\ rctx = [c \in Calls |-> FALSE]
    /\ rmin = [c \in Calls |-> 0]
    /\ rq = [c \in Calls |-> 0]
    /\ result = [c \in Calls |-> NoResult]
    /\ cachepc = [c \in Calls |-> "idle"]
    /\ cacheval = [c \in Calls |-> [tasks |-> NilSlice, err |-> ErrNil, present |-> FALSE]]
    /\ dbpc = [c \in Calls |-> "idle"]
    /\ dbval = [c \in Calls |-> IdleBranch]
    /\ refill = [c \in Calls |-> [pc |-> "none", tasks |-> NilSlice]]
    /\ closerpc = [c \in Calls |-> "idle"]
    /\ tasksClosed = [c \in Calls |-> FALSE]
    /\ errBuf = [c \in Calls |-> <<>>]
    /\ errClosed = [c \in Calls |-> FALSE]
    /\ firstErr = [c \in Calls |-> ErrNil]
    /\ muReaders = 0
    /\ goroutines = 0

\* No batch request is being handled and no client has a counter key.
IdleRequest == [pc |-> "idle", user |-> "", ids |-> <<>>, size |-> 1, idx |-> 1,
                resp |-> "none"]
InitWeb ==
    /\ hreq = IdleRequest
    /\ limiter = [key |-> Nil, gen |-> 0, req |-> <<>>]

InitOps == op = [k \in Ops |-> IdleOp] /\ InitWeb

\* A worker nobody has submitted to.
InitWorkerIdle ==
    /\ maxWorkers = 0
    /\ workerPool = 0
    /\ wg = 0
    /\ item = <<>>
    /\ waitpc = "idle"
    /\ waitSeen = {}
    /\ wctx = FALSE
    /\ panicked = FALSE

InitBatchIdle ==
    /\ bpc = "idle"
    /\ bids = <<>>
    /\ bsize = 1
    /\ btarget = StatusPending
    /\ group = <<>>
    /\ bErrBuf = <<>>
    /\ bErrClosed = FALSE
    /\ bErrors = <<>>
    /\ bret = ErrNil

vars == <<svars, rvars, ovars, wvars, bvars>>

\* ------------------------------------------------------------- the read path
\* Resolve calls racing with service-level mutations and their invalidations
\* over a configured cache.  `Fail` is whether a collaborator (Redis,
\* PostgreSQL) may fail a command, `Fs` the filters the callers pass.
ResolverStep(c, Fail, Fs) ==
    \/ \E o \in Owners, f \in Fs : Resolve(c, o, f)
    \/ \E fail \in Fail : CacheLookup(c, fail)
    \/ CacheSendErr(c)
    \/ \E fail \in Fail : DBQuery(c, fail)
    \/ DBSendErr(c)
    \/ \E fail \in Fail : CacheTasks(c, fail)
    \/ CloseTasksChan(c)
    \/ CloseErrChan(c)
    \/ RecvFromCache(c)
    \/ RecvFromDB(c)
    \/ RecvClosedTasks(c)
    \/ RecvErr(c)
    \/ RecvErr2(c)

CancelStep(c) ==
    \/ CancelCtx(c)
    \/ RecvCtxDone(c)

InvalidationStep(i, Fail) ==
    \/ \E fail \in Fail : InvalidateScan(i, fail)
    \/ \E fail \in Fail : InvalidateDel(i, fail)

\* The requests the mutating callers of the read-path specification send.
ReadPathRequests ==
    {[Title |-> Nil, Status |-> Some(StatusCompleted), Priority |-> Nil],
     [Title |-> Some("t2"), Status |-> Nil, Priority |-> Nil]}

ServiceStep(k, Fail, Requests) ==
    \/ \E o \in Owners, fail \in Fail : CreateTask(k, o, fail)
    \/ \E id \in TaskIds, req \in Requests : UpdateTaskFind(k, id, req)
    \/ UpdateTaskWrite(k)
    \/ \E id \in TaskIds : DeleteTaskFind(k, id)
    \/ DeleteTaskExec(k)

Init ==
    /\ cacheNil = FALSE
    /\ InitStore /\ InitResolver /\ InitOps /\ InitWorkerIdle /\ InitBatchIdle

\* No collaborator fails here, so no branch sends a store error and no caller
\* reads a closed channel: those steps belong to SpecRace.
ReadStep(c) ==
    \/ \E o \in Owners, f \in Filters : Resolve(c, o, f)
    \/ CacheLookup(c, FALSE)
    \/ CacheSendErr(c)
    \/ DBQuery(c, FALSE)
    \/ CacheTasks(c, FALSE)
    \/ CloseTasksChan(c)
    \/ CloseErrChan(c)
    \/ RecvFromCache(c)
    \/ RecvFromDB(c)
    \/ RecvErr(c)

Next ==
    \/ \E c \in Calls : ReadStep(c)
    \/ \E i \in 1..Len(inval) : InvalidationStep(i, {FALSE})
    \/ \E k \in Ops : ServiceStep(k, {FALSE}, ReadPathRequests)

Spec == Init /\ [][Next]_vars

\* ------------------------------------------------------------- no cache configured
\* The same callers over a repository built with a nil Redis client; the store
\* may fail a query.
InitNoCache ==
    /\ cacheNil = TRUE
    /\ InitStore /\ InitResolver /\ InitOps /\ InitWorkerIdle /\ InitBatchIdle

NextNoCache ==
    \/ \E c \in Calls, o \in Owners, f \in Filters : Resolve(c, o, f)
    \/ \E c \in Calls, fail \in BOOLEAN : ResolveDirect(c, fail)
    \/ \E k \in Ops : ServiceStep(k, {FALSE}, ReadPathRequests)

SpecNoCache == InitNoCache /\ [][NextNoCache]_vars

\* ------------------------------------------------------------- the race of one call
\* Resolve calls alone, with failing collaborators, cancelled callers and
\* expiring entries, over a cache that earlier calls have filled: any subset
\* of the keys, each holding what cacheTasks stored for its query (one task
\* for owner u1, the empty result for owner u2).
RaceFilters == {FilterAll}

WarmCaches ==
    LET d == [i \in {1} |-> Task1]
        pairs == Owners \X RaceFilters
        keyOf(pr) == getCacheKey(pr[1], pr[2])
    IN {[k \in {keyOf(pr) : pr \in P} |->
            LET pr == CHOOSE q \in P : keyOf(q) = k
            IN Marshal(getTasksFromDB(d, pr[1], pr[2]))] : P \in SUBSET pairs}

InitRace ==
    /\ cacheNil = FALSE
    /\ db = [i \in {1} |-> Task1]
    /\ nextId = 2
    /\ cache \in WarmCaches
    /\ inval = <<>>
    /\ cacheOps = 0
    /\ InitResolver /\ InitOps /\ InitWorkerIdle /\ InitBatchIdle

NextRace ==
    \/ \E c \in 1..RaceCalls : ResolverStep(c, BOOLEAN, RaceFilters)
    \/ \E c \in 1..RaceCalls : CancelStep(c)
    \/ \E key \in DOMAIN cache : CacheExpire(key)

SpecRace == InitRace /\ [][NextRace]_vars

\* ------------------------------------------------------------- a caller with a deadline
\* Cache and store answer every command they are sent on a live context; the
\* only failures are those of commands sent on a context that is already done.
NextDeadline ==
    \/ \E c \in 1..RaceCalls : ResolverStep(c, {FALSE}, RaceFilters)
    \/ \E c \in 1..RaceCalls : CancelStep(c)

SpecDeadline == InitRace /\ [][NextDeadline]_vars

\* ------------------------------------------------------------- the keys of the cache
\* Calls with any owner and any filter the handler can bind from a query
\* string, each up to its lookup in an empty cache.
KeyFilters ==
    [Status : {Nil, Some(StatusPending), Some(StatusCompleted), Some(OddStatus)},
     Priority : {Nil, Some(1), Some(2)},
     FromDate : {Nil, Some(2)},
     ToDate : {Nil},
     Limit : {1, DefaultLimit},
     Offset : {0, 1}]

NextKeys ==
    \/ \E c \in Calls, o \in Owners, f \in KeyFilters : Resolve(c, o, f)
    \/ \E c \in Calls : CacheLookup(c, FALSE)

SpecKeys == Init /\ [][NextKeys]_vars

\* ------------------------------------------------------------- the write-back
\* Calls on a warm or cold cache whose lookup or store query may fail, with a
\* Redis that accepts every SET and callers that keep their context.  The
\* cacheTasks goroutine, once started, is scheduled.
NextRefill ==
    \/ \E c \in 1..RaceCalls, o \in Owners, f \in RaceFilters : Resolve(c, o, f)
    \/ \E c \in 1..RaceCalls, fail \in BOOLEAN : CacheLookup(c, fail)
    \/ \E c \in 1..RaceCalls, fail \in BOOLEAN : DBQuery(c, fail)
    \/ \E c \in 1..RaceCalls :
          \/ CacheSendErr(c)
          \/ DBSendErr(c)
          \/ CacheTasks(c, FALSE)
          \/ CloseTasksChan(c)
          \/ CloseErrChan(c)
          \/ RecvFromCache(c)
          \/ RecvFromDB(c)
          \/ RecvClosedTasks(c)
          \/ RecvErr(c)
          \/ RecvErr2(c)
    \/ \E key \in DOMAIN cache : CacheExpire(key)

SpecRefill ==
    /\ InitRace
    /\ [][NextRefill]_vars
    /\ \A c \in 1..RaceCalls : WF_vars(CacheTasks(c, FALSE))

\* ------------------------------------------------------------- the goroutines of a call
\* Every step of call c but its issue and the cancellation of its context: the
\* steps of its caller and of the goroutines it started.  The Go scheduler
\* runs each of them when it can run.
GoroutineStep(c) ==
    \/ CacheLookup(c, FALSE)
    \/ CacheSendErr(c)
    \/ DBQuery(c, FALSE)
    \/ DBSendErr(c)
    \/ CacheTasks(c, FALSE)
    \/ CloseTasksChan(c)
    \/ CloseErrChan(c)
    \/ RecvFromCache(c)
    \/ RecvFromDB(c)
    \/ RecvClosedTasks(c)
    \/ RecvErr(c)
    \/ RecvErr2(c)
    \/ RecvCtxDone(c)

NextLeak ==
    \/ \E c \in 1..RaceCalls, o \in Owners, f \in RaceFilters : Resolve(c, o, f)
    \/ \E c \in 1..RaceCalls : GoroutineStep(c)
    \/ \E c \in 1..RaceCalls : CancelCtx(c)

SpecLeak ==
    /\ InitRace
    /\ [][NextLeak]_vars
    /\ \A c \in 1..RaceCalls : WF_vars(GoroutineStep(c))

\* ------------------------------------------------------------- filters with a date range
\* Two calls for owner u1 on an empty cache, with the unfiltered list or with
\* the list of the tasks created from time 2 on (the one task of the table was
\* created at time 1).  Cache and store answer.
FilterFrom == [FilterAll EXCEPT !.FromDate = Some(2)]
DateFilters == {FilterAll, FilterFrom}

NextDates ==
    \/ \E c \in Calls, f \in DateFilters : Resolve(c, "u1", f)
    \/ \E c \in Calls :
          \/ CacheLookup(c, FALSE)
          \/ CacheSendErr(c)
          \/ DBQuery(c, FALSE)
          \/ CacheTasks(c, FALSE)
          \/ CloseTasksChan(c)
          \/ CloseErrChan(c)
          \/ RecvFromCache(c)
          \/ RecvFromDB(c)
          \/ RecvErr(c)

SpecDates == Init /\ [][NextDates]_vars

\* ------------------------------------------------------------- two owners
\* Each owner has one task in the table.  Calls of either owner for the
\* unfiltered list race with updates of either task and the invalidations
\* they start; cache and store answer.
Task2 == [Task1 EXCEPT !.ID = 2, !.UserID = "u2", !.CreatedAt = 2]
RenameRequest == [Title |-> Some("t2"), Status |-> Nil, Priority |-> Nil]

InitOwners ==
    /\ cacheNil = FALSE
    /\ db = [i \in {1, 2} |-> IF i = 1 THEN Task1 ELSE Task2]
    /\ nextId = 3
    /\ cache = EmptyCache
    /\ inval = <<>>
    /\ cacheOps = 0
    /\ InitResolver /\ InitOps /\ InitWorkerIdle /\ InitBatchIdle

NextOwners ==
    \/ \E c \in Calls, o \in Owners : Resolve(c, o, FilterAll)
    \/ \E c \in Calls :
          \/ CacheLookup(c, FALSE)
          \/ CacheSendErr(c)
          \/ DBQuery(c, FALSE)
          \/ CacheTasks(c, FALSE)
          \/ CloseTasksChan(c)
          \/ CloseErrChan(c)
          \/ RecvFromCache(c)
          \/ RecvFromDB(c)
          \/ RecvErr(c)
    \/ \E i \in 1..Len(inval) : InvalidationStep(i, {FALSE})
    \/ \E k \in Ops, id \in {1, 2} : UpdateTaskFind(k, id, RenameRequest)
    \/ \E k \in Ops : UpdateTaskWrite(k)

SpecOwners == InitOwners /\ [][NextOwners]_vars

\* ------------------------------------------------------------- requests to the batch endpoint
\* One request of either user with any list of up to MaxBatchSize ids among
\* the id of u1's task, the id of u2's task and an id with no row, over a table
\* nobody changes meanwhile.  The store may fail a lookup.
MissingId == 3
HandlerIds == UNION {[1..n -> {1, 2, MissingId}] : n \in 0..MaxBatchSize}

InitHandler ==
    /\ cacheNil = TRUE
    /\ db = [i \in {1, 2} |-> IF i = 1 THEN Task1 ELSE Task2]
    /\ nextId = 3
    /\ cache = EmptyCache
    /\ inval = <<>>
    /\ cacheOps = 0
    /\ InitResolver /\ InitOps /\ InitBatchIdle
    /\ maxWorkers = 1
    /\ workerPool = 0
    /\ wg = 0
    /\ item = <<>>
    /\ waitpc = "idle"
    /\ waitSeen = {}
    /\ wctx = FALSE
    /\ panicked = FALSE

NextHandler ==
    \/ \E u \in Owners, ids \in HandlerIds, size \in 1..MaxBatchSize : HandlerReceive(u, ids, size)
    \/ \E fail \in BOOLEAN : HandlerValidate(fail)
    \/ HandlerDispatch

SpecHandler == InitHandler /\ [][NextHandler]_vars

\* ------------------------------------------------------------- concurrent requests of one client
\* Up to RequestLimit requests of one client IP run the middleware
\* concurrently; Redis may fail any command and the key's window may end at
\* any time once its expiry is set.
NextLimiter ==
    \/ \E fail \in BOOLEAN : LimiterIncr(fail)
    \/ \E r \in 1..Len(limiter.req), fail \in BOOLEAN : LimiterExpire(r, fail)
    \/ \E r \in 1..Len(limiter.req) : LimiterCheck(r)
    \/ LimiterKeyExpire

SpecLimiter == Init /\ [][NextLimiter]_vars

\* ------------------------------------------------------------- the worker pool alone
\* Direct and batched submissions to a pool of 0..MaxCap slots over a store
\* without cache.
WorkerTargets == {StatusCompleted}

InitWorker ==
    /\ cacheNil = TRUE
    /\ db = [i \in {1, 2} |-> [Task1 EXCEPT !.ID = i, !.CreatedAt = i]]
    /\ nextId = 3
    /\ cache = EmptyCache
    /\ inval = <<>>
    /\ cacheOps = 0
    /\ InitResolver /\ InitOps /\ InitBatchIdle
    /\ maxWorkers \in 0..MaxCap
    /\ workerPool = 0
    /\ wg = 0
    /\ item = <<>>
    /\ waitpc = "idle"
    /\ waitSeen = {}
    /\ wctx = FALSE
    /\ panicked = FALSE

ItemStep(i, Fail) ==
    \/ AcquireSlot(i)
    \/ \E fail \in Fail, expired \in BOOLEAN : ProcessApply(i, fail, expired)
    \/ \E expired \in BOOLEAN : ProcessTimeout(i, expired)
    \/ ReleaseSlot(i)
    \/ ItemDone(i)

\* The batched submissions: a batch of two ids, whose lookups may fail.
WorkerBatchStep ==
    \/ BatchProcessTasks(<<1, 2>>, 2, StatusCompleted)
    \/ \E g \in 1..Len(group), fail \in BOOLEAN : GroupStep(g, fail, MaxItems)
    \/ \E g \in 1..Len(group) : GroupSend(g)
    \/ BatchClose
    \/ BatchCollect
    \/ BatchReturn

NextWorker ==
    \/ \E id \in {1}, target \in WorkerTargets :
          Len(item) < MaxItems /\ SubmitOne(id, target)
    \/ WorkerBatchStep
    \/ \E i \in 1..Len(item) : ItemStep(i, BOOLEAN)

SpecWorker == InitWorker /\ [][NextWorker]_vars

\* Direct submissions, the caller of Wait and a caller's context that may end.
NextDrain ==
    \/ \E id \in {1}, target \in WorkerTargets :
          Len(item) < MaxItems /\ SubmitOne(id, target)
    \/ \E i \in 1..Len(item) : ItemStep(i, BOOLEAN)
    \/ WaitCall
    \/ WaitReturn
    \/ CancelWorkerCtx

SpecDrain == InitWorker /\ [][NextDrain]_vars

\* ------------------------------------------------------------- a batch with one invalid id
\* BatchProcessTasks over five ids, four of tasks in the table and one of no
\* task, in batches of two, on a pool of three slots.
BatchInputs ==
    {<<5, 1, 2, 3, 4>>, <<1, 5, 2, 3, 4>>, <<1, 2, 5, 3, 4>>, <<1, 2, 3, 5, 4>>,
     <<1, 2, 3, 4, 5>>}

InitBatch ==
    /\ cacheNil = TRUE
    /\ db = [i \in 1..4 |-> [Task1 EXCEPT !.ID = i, !.CreatedAt = i]]
    /\ nextId = 6
    /\ cache = EmptyCache
    /\ inval = <<>>
    /\ cacheOps = 0
    /\ InitResolver /\ InitOps /\ InitBatchIdle
    /\ maxWorkers = 3
    /\ workerPool = 0
    /\ wg = 0
    /\ item = <<>>
    /\ waitpc = "idle"
    /\ waitSeen = {}
    /\ wctx = FALSE
    /\ panicked = FALSE

BatchStep ==
    \/ \E ids \in BatchInputs : BatchProcessTasks(ids, 2, StatusCompleted)
    \/ \E g \in 1..Len(group), fail \in BOOLEAN : GroupStep(g, fail, 4)
    \/ \E g \in 1..Len(group) : GroupSend(g)
    \/ BatchClose
    \/ BatchCollect
    \/ BatchReturn

NextBatch ==
    \/ BatchStep
    \/ \E i \in 1..Len(item) :
          \/ AcquireSlot(i)
          \/ ProcessApply(i, FALSE, FALSE)
          \/ ReleaseSlot(i)
          \/ ItemDone(i)

SpecBatch == InitBatch /\ [][NextBatch]_vars

\* ------------------------------------------------------------- a batch whose lookups may fail
\* BatchProcessTasks over three ids of tasks in the table, in batches of two;
\* the store may fail any lookup and the caller may cancel its context.
DispatchIds == <<1, 2, 3>>

NextDispatch ==
    \/ BatchProcessTasks(DispatchIds, 2, StatusCompleted)
    \/ \E g \in 1..Len(group), fail \in BOOLEAN : GroupStep(g, fail, 4)
    \/ \E g \in 1..Len(group) : GroupSend(g)
    \/ BatchClose
    \/ BatchCollect
    \/ BatchReturn
    \/ \E i \in 1..Len(item) :
          \/ AcquireSlot(i)
          \/ ProcessApply(i, FALSE, FALSE)
          \/ ReleaseSlot(i)
          \/ ItemDone(i)
    \/ CancelWorkerCtx

SpecDispatch == InitBatch /\ [][NextDispatch]_vars

\* ------------------------------------------------------------- the partition of an id list
\* BatchProcessTasks called with any list of up to MaxIds distinct ids and any
\* batch size of 1..MaxBatchSize.
IdLists ==
    {s \in UNION {[1..n -> 1..MaxIds] : n \in 0..MaxIds} :
        \A i, j \in DOMAIN s : s[i] = s[j] => i = j}

InitPartition ==
    /\ cacheNil = TRUE
    /\ db = [i \in 1..MaxIds |-> [Task1 EXCEPT !.ID = i, !.CreatedAt = i]]
    /\ nextId = MaxIds + 1
    /\ cache = EmptyCache
    /\ inval = <<>>
    /\ cacheOps = 0
    /\ InitResolver /\ InitOps /\ InitWorkerIdle
    /\ bpc = "idle"
    /\ bids \in IdLists
    /\ bsize \in 1..MaxBatchSize
    /\ btarget = StatusCompleted
    /\ group = <<>>
    /\ bErrBuf = <<>>
    /\ bErrClosed = FALSE
    /\ bErrors = <<>>
    /\ bret = ErrNil

NextPartition == BatchProcessTasks(bids, bsize, btarget)

SpecPartition == InitPartition /\ [][NextPartition]_vars

\* ------------------------------------------------------------- the batch of the unit test
\* TestTaskWorker_BatchProcessTasks: a pool of three slots, five ids of pending
\* tasks in batches of two, a store that answers, then Wait.
TestIds == <<1, 2, 3, 4, 5>>

InitTest ==
    /\ cacheNil = TRUE
    /\ db = [i \in 1..Len(TestIds) |-> [Task1 EXCEPT !.ID = i, !.CreatedAt = i]]
    /\ nextId = Len(TestIds) + 1
    /\ cache = EmptyCache
    /\ inval = <<>>
    /\ cacheOps = 0
    /\ InitResolver /\ InitOps /\ InitBatchIdle
    /\ maxWorkers = 3
    /\ workerPool = 0
    /\ wg = 0
    /\ item = <<>>
    /\ waitpc = "idle"
    /\ waitSeen = {}
    /\ wctx = FALSE
    /\ panicked = FALSE

NextTest ==
    \/ BatchProcessTasks(TestIds, 2, StatusCompleted)
    \/ \E g \in 1..Len(group) : GroupStep(g, FALSE, Len(TestIds))
    \/ BatchClose
    \/ BatchReturn
    \/ \E i \in 1..Len(item) :
          \/ AcquireSlot(i)
          \/ ProcessApply(i, FALSE, FALSE)
          \/ ReleaseSlot(i)
          \/ ItemDone(i)
    \/ bpc = "done" /\ WaitCall
    \/ WaitReturn

SpecTest == InitTest /\ [][NextTest]_vars

\* ------------------------------------------------------------- status transitions
\* The two paths that change a task's status, side by side: work items
\* submitted with any target status, and service-level calls with any request.
InitStatus ==
    /\ cacheNil = TRUE
    /\ InitStore /\ InitResolver /\ InitOps /\ InitBatchIdle
    /\ maxWorkers = 1
    /\ workerPool = 0
    /\ wg = 0
    /\ item = <<>>
    /\ waitpc = "idle"
    /\ waitSeen = {}
    /\ wctx = FALSE
    /\ panicked = FALSE

NextStatus ==
    \/ \E id \in TaskIds, target \in TaskStatus :
          Len(item) < MaxItems - 1 /\ SubmitOne(id, target)
    \/ \E i \in 1..Len(item) : ItemStep(i, BOOLEAN)
    \/ \E k \in Ops : ServiceStep(k, {FALSE}, UpdateRequests)

SpecStatus == InitStatus /\ [][NextStatus]_vars

\* ------------------------------------------------------------- updates over a warm cache
\* Owner u1's unfiltered list is cached; resolve calls race with UpdateTask
\* calls on the owner's task and with the invalidations they start.
WarmKey == getCacheKey("u1", FilterAll)
WarmEntry == Marshal(getTasksFromDB([i \in {1} |-> Task1], "u1", FilterAll))

InitInval ==
    /\ cacheNil = FALSE
    /\ db = [i \in {1} |-> Task1]
    /\ nextId = 2
    /\ cache = [k \in {WarmKey} |-> WarmEntry]
    /\ inval = <<>>
    /\ cacheOps = 0
    /\ InitResolver /\ InitOps /\ InitWorkerIdle /\ InitBatchIdle

NextInval ==
    \/ \E c \in Calls, o \in Owners : Resolve(c, o, FilterAll)
    \/ \E c \in Calls : CacheLookup(c, FALSE)
    \/ \E c \in Calls : CacheSendErr(c)
    \/ \E c \in Calls : DBQuery(c, FALSE)
    \/ \E c \in Calls : CacheTasks(c, FALSE)
    \/ \E c \in Calls : CloseTasksChan(c)
    \/ \E c \in Calls : CloseErrChan(c)
    \/ \E c \in Calls : RecvFromCache(c)
    \/ \E c \in Calls : RecvFromDB(c)
    \/ \E c \in Calls : RecvErr(c)
    \/ \E i \in 1..Len(inval) : InvalidationStep(i, {FALSE})
    \/ \E k \in Ops, req \in ReadPathRequests : UpdateTaskFind(k, 1, req)
    \/ \E k \in Ops : UpdateTaskWrite(k)

SpecInval == InitInval /\ [][NextInval]_vars

\* ------------------------------------------------------------- callers that cancel after the return
\* Resolve and UpdateTask calls over a warm cache with a cache and a store that
\* answer.  A caller cancels its context only after its call has returned, as
\* net/http does with the request context when the handler returns.
NextDetach ==
    \/ \E c \in 1..RaceCalls, o \in Owners : Resolve(c, o, FilterAll)
    \/ \E c \in 1..RaceCalls :
          \/ CacheLookup(c, FALSE)
          \/ CacheSendErr(c)
          \/ DBQuery(c, FALSE)
          \/ DBSendErr(c)
          \/ CacheTasks(c, FALSE)
          \/ CloseTasksChan(c)
          \/ CloseErrChan(c)
          \/ RecvFromCache(c)
          \/ RecvFromDB(c)
          \/ RecvErr(c)
          \/ rpc[c] = "done" /\ CancelCtx(c)
    \/ \E i \in 1..Len(inval) :
          \/ InvalidationStep(i, {FALSE})
          \/ CancelInvalidationCtx(i)
    \/ \E k \in Ops, req \in ReadPathRequests : UpdateTaskFind(k, 1, req)
    \/ \E k \in Ops : UpdateTaskWrite(k)

SpecDetach == InitInval /\ [][NextDetach]_vars

\* ------------------------------------------------------------- writers of one row
\* One more service call than MaxOps, so that an UpdateTask and a DeleteTask of
\* the same task overlap; id 2 names no task.  The owner's list is cached.
VanishOps == 1..(MaxOps + 1)
VanishIds == {1, 2}

InitVanish ==
    /\ cacheNil = FALSE
    /\ db = [i \in {1} |-> Task1]
    /\ nextId = 3
    /\ cache = [k \in {WarmKey} |-> WarmEntry]
    /\ inval = <<>>
    /\ cacheOps = 0
    /\ op = [k \in VanishOps |-> IdleOp]
    /\ InitWeb
    /\ InitResolver /\ InitWorkerIdle /\ InitBatchIdle

NextVanish ==
    \/ \E k \in VanishOps, id \in VanishIds, req \in ReadPathRequests : UpdateTaskFind(k, id, req)
    \/ \E k \in VanishOps : UpdateTaskWrite(k)
    \/ \E k \in VanishOps, id \in VanishIds : DeleteTaskFind(k, id)
    \/ \E k \in VanishOps : DeleteTaskExec(k)
    \/ \E i \in 1..Len(inval) : InvalidationStep(i, {FALSE})

SpecVanish == InitVanish /\ [][NextVanish]_vars

\* ------------------------------------------------------------- invalidations over two owners' entries
\* Both owners have their two lists cached.  Updates of either owner's task
\* start invalidations; the request context an invalidation runs on is
\* cancelled when the handler has returned, before or after the goroutine has
\* sent its commands.  Redis answers every command sent on a live context.
OwnersDb == [i \in {1, 2} |-> IF i = 1 THEN Task1 ELSE Task2]
OwnersCache ==
    LET pairs == Owners \X Filters
    IN [k \in {getCacheKey(pr[1], pr[2]) : pr \in pairs} |->
           LET pr == CHOOSE q \in pairs : getCacheKey(q[1], q[2]) = k
           IN Marshal(getTasksFromDB(OwnersDb, pr[1], pr[2]))]

InitFrame ==
    /\ cacheNil = FALSE
    /\ db = OwnersDb
    /\ nextId = 3
    /\ cache = OwnersCache
    /\ inval = <<>>
    /\ cacheOps = 0
    /\ InitResolver /\ InitWorkerIdle /\ InitBatchIdle
    /\ op = [k \in VanishOps |-> IdleOp]
    /\ InitWeb

NextFrame ==
    \/ \E k \in VanishOps, id \in {1, 2} : UpdateTaskFind(k, id, RenameRequest)
    \/ \E k \in VanishOps : UpdateTaskWrite(k)
    \/ \E i \in 1..Len(inval) :
          \/ InvalidationStep(i, {FALSE})
          \/ CancelInvalidationCtx(i)

SpecFrame == InitFrame /\ [][NextFrame]_vars

\* ------------------------------------------------------------- a caller that gives up
\* Items submitted on a live context, which the caller may cancel afterwards.
\* The store answers and every item is processed well within its own 30 s.
NextCancel ==
    \/ \E id \in {1}, target \in WorkerTargets :
          ~wctx /\ Len(item) < MaxItems /\ SubmitOne(id, target)
    \/ \E i \in 1..Len(item) :
          \/ AcquireSlot(i)
          \/ ProcessApply(i, FALSE, FALSE)
          \/ ProcessTimeout(i, FALSE)
          \/ ReleaseSlot(i)
          \/ ItemDone(i)
    \/ CancelWorkerCtx

SpecCancel == InitWorker /\ [][NextCancel]_vars

\* ------------------------------------------------------------- a burst under fair scheduling
\* A pool of at least one slot, a finite burst of submissions and one Wait,
\* called after the last submission.
\* The Go scheduler runs every runnable goroutine eventually, and a goroutine
\* blocked on the pool channel is woken when a slot is given back.
InitFair == InitWorker /\ maxWorkers >= 1

ItemRun(i) ==
    /\ i <= Len(item)
    /\ \/ AcquireSlot(i)
       \/ ProcessApply(i, FALSE, FALSE)
       \/ ProcessTimeout(i, TRUE)
       \/ ReleaseSlot(i)
       \/ ItemDone(i)

NextFair ==
    \/ \E id \in {1}, target \in WorkerTargets :
          waitpc = "idle" /\ Len(item) < MaxItems /\ SubmitOne(id, target)
    \/ \E i \in 1..MaxItems : ItemRun(i)
    \/ WaitCall
    \/ WaitReturn

SpecFair ==
    /\ InitFair
    /\ [][NextFair]_vars
    /\ \A i \in 1..MaxItems : WF_vars(ItemRun(i))
    /\ WF_vars(WaitReturn)

\* ------------------------------------------------------------- properties of one call
\* What the two branch goroutines of call c came back with.
CacheFailed(c) == cachepc[c] \in {"sendE", "done"} /\ cacheval[c].err = ErrCache
CacheHit(c) == cachepc[c] \in {"sendT", "done"} /\ CacheBranchHit(cacheval[c])
DBFailed(c) == dbpc[c] \in {"sendE", "done"} /\ dbval[c].err = ErrDB
DBSucceeded(c) == dbpc[c] \in {"sendT", "done"} /\ dbval[c].err = ErrNil

\* The aggregate errors that name both causes.
BothCauses ==
    {<<"failed to get tasks", ErrCache, ErrDB>>, <<"failed to get tasks", ErrDB, ErrCache>>,
     <<"both cache and DB failed", ErrCache>>, <<"both cache and DB failed", ErrDB>>}

\* C1: when both the cache lookup and the store query of a call have failed
\* and the caller's context is live, the call returns an error naming both
\* causes, never a successful result.
C1_BothFailAggregate ==
    \A c \in Calls :
        (rpc[c] = "done" /\ ~rctx[c] /\ CacheFailed(c) /\ DBFailed(c))
            => result[c].err \in BothCauses

\* The caller sits in the inner select, which has no ctx.Done() case, the cache
\* branch has finished and the store query has not returned: only the store
\* query's completion lets the call return.
WaitsForStore(c) ==
    /\ rpc[c] = "select2"
    /\ cachepc[c] = "done"
    /\ dbpc[c] = "start"
    /\ errBuf[c] = <<>>

\* C3: when the lookup of a call found an entry under its key (whatever task
\* set was cached, the empty one included), the call never depends on the
\* store query to return, and it returns the entry's content.
C3_WarmEntryReturned ==
    \A c \in Calls :
        cacheval[c].present =>
            /\ ~WaitsForStore(c)
            /\ (rpc[c] = "done" /\ ~rctx[c]) =>
                   /\ result[c].err = Nil
                   /\ result[c].tasks.elems = cacheval[c].tasks.elems

\* C4: when exactly one branch of a call failed and the other came back with a
\* usable result, the call returns the surviving branch's task set with a nil
\* error, whichever branch finished first; the only other return is the
\* cancellation error of a caller whose context is done.
C4_SurvivorReturned ==
    \A c \in Calls :
        rpc[c] = "done" =>
            /\ (CacheFailed(c) /\ DBSucceeded(c)) =>
                   \/ result[c] = [tasks |-> dbval[c].tasks, err |-> Nil]
                   \/ rctx[c] /\ result[c].err = <<ErrCtx>>
            /\ (DBFailed(c) /\ CacheHit(c)) =>
                   \/ result[c] = [tasks |-> cacheval[c].tasks, err |-> Nil]
                   \/ rctx[c] /\ result[c].err = <<ErrCtx>>

\* A call whose cache error reached the caller first and whose store query
\* then delivered a non-empty task set.
C4_Witness ==
    \E c \in Calls :
        /\ rpc[c] = "done" /\ ~rctx[c]
        /\ CacheFailed(c) /\ DBSucceeded(c)
        /\ firstErr[c] = ErrCache
        /\ result[c].err = Nil /\ result[c].tasks.elems # <<>>

\* ------------------------------------------------------------- properties of the read path
\* Call c was issued after the invalidation of the newest mutation had
\* completed, that mutation was one of the owner's tasks, and nothing has been
\* written since: the table is still the one that mutation left.
IssuedAfterLastMutation(c) ==
    /\ rpc[c] # "idle"
    /\ rmin[c] > 0
    /\ rmin[c] = Len(inval)

\* C2: a call issued strictly after the invalidation step of a successful
\* mutation of one of the owner's tasks has completed returns a task set that
\* reflects the mutation, whatever earlier calls and their refills are doing.
C2_FreshAfterInvalidation ==
    \A c \in Calls :
        (rpc[c] = "done" /\ result[c].err = Nil /\ IssuedAfterLastMutation(c))
            => result[c].tasks.elems
                   = getTasksFromDB(db, rargs[c].userID, rargs[c].filter).elems

\* C5: with no cache client configured a call returns exactly what the direct
\* store query returns (its task set, or its error), no goroutine is started by
\* GetTasksWithConcurrency, and no mutation sends a command to the cache.
C5_NoCacheDirect ==
    cacheNil =>
        /\ goroutines = 0
        /\ cacheOps = 0
        /\ cache = EmptyCache
        /\ \A i \in 1..Len(inval) : inval[i].pc = "done" /\ inval[i].keys = {}
        /\ \A c \in Calls :
              rpc[c] = "done" =>
                  \/ /\ result[c].err = Nil
                     /\ rq[c] = Len(inval) =>
                            result[c].tasks
                                = getTasksFromDB(db, rargs[c].userID, rargs[c].filter)
                  \/ result[c] = [tasks |-> NilSlice, err |-> <<ErrDB>>]

\* A cache-less call that returned the owner's tasks after a mutation.
C5_Witness ==
    /\ cacheNil
    /\ Len(inval) > 0
    /\ \E c \in Calls :
          /\ rpc[c] = "done" /\ result[c].err = Nil
          /\ rq[c] = Len(inval)
          /\ inval[rq[c]].owner = rargs[c].userID
          /\ result[c].tasks.elems # <<>>

\* ------------------------------------------------------------- properties of a batch
\* No lookup of the batch was failed by the store and its context is live.
BatchUndisturbed == ~wctx /\ \A g \in 1..Len(group) : group[g].err = ErrNil

\* The ids of the batch that name a task of the table.
ValidIds == {bids[k] : k \in 1..Len(bids)} \cap DOMAIN db

\* C8: a batch over five ids of which exactly one names no task keeps running
\* (no goroutine panics), returns the aggregate failure with count one, and by
\* then has dispatched an item for each of the other four tasks.
C8_OneInvalidOfFive ==
    (bpc # "idle" /\ BatchUndisturbed) =>
        /\ ~panicked
        /\ bpc = "done" =>
               /\ bret = "1"
               /\ {item[i].task.ID : i \in 1..Len(item)} = ValidIds

\* ------------------------------------------------------------- properties of the pool
\* The items that hold a slot: acquired and not yet released.
Processing == {i \in 1..Len(item) : item[i].pc \in {"processing", "terminal"}}
TerminalOutcomes == {"Applied", "Failed", "TimedOut"}

\* C6: in every state the number of items that hold a slot is at most the cap
\* passed to NewTaskWorker, however many items were submitted one by one or in
\* a batch.
C6_PoolCap ==
    /\ Cardinality(Processing) <= maxWorkers
    /\ workerPool = Cardinality(Processing)

\* Every slot is taken while a further item, submitted by a batch, waits.
C6_Witness ==
    /\ maxWorkers >= 1
    /\ Cardinality(Processing) = maxWorkers
    /\ bpc # "idle"
    /\ \E i \in 1..Len(item) : item[i].pc = "queued"

\* C7: when Wait has returned, every item whose ProcessTaskAsync call had
\* returned before Wait was called has reached a terminal outcome and has
\* given its slot and its count back.
C7_WaitDrains ==
    waitpc = "returned" =>
        \A i \in waitSeen :
            item[i].pc = "done" /\ item[i].outcome \in TerminalOutcomes

\* Wait returned after two or more items, one applied and one not.
C7_Witness ==
    /\ waitpc = "returned"
    /\ Cardinality(waitSeen) >= 2
    /\ \E i, j \in waitSeen :
          item[i].outcome = "Applied" /\ item[j].outcome \in {"Failed", "TimedOut"}

\* ------------------------------------------------------------- properties of status transitions
\* C9: the store update that processing an item issues carries the target
\* status the item was submitted with, and a completion timestamp when that
\* status is completed.
C9_TargetStatusApplied ==
    \A i \in 1..Len(item) :
        item[i].outcome \in {"Applied", "Failed"} =>
            /\ item[i].task.Status = item[i].target
            /\ item[i].target = StatusCompleted => item[i].task.CompletedAt # Nil

\* C10: every task of the table whose status is completed has a completion
\* timestamp, whichever path wrote the status.
C10_CompletedHasTimestamp ==
    \A id \in DOMAIN db :
        db[id].Status = StatusCompleted => db[id].CompletedAt # Nil

\* ------------------------------------------------------------- properties of invalidation
\* Call c is the first call issued after the invalidation of the first update
\* of one of its owner's tasks had completed, and it has looked its key up.
FirstCallAfterUpdate(c) ==
    /\ rmin[c] = 1
    /\ \A d \in Calls \ {c} : rpc[d] = "idle" \/ rmin[d] = 0
    /\ cachepc[c] \in {"sendT", "sendE", "done"}

\* C11: once an update has succeeded and its invalidation step has completed,
\* the next call for the owner does not find, under a key that was cached
\* before the update, the entry that was cached before the update.
C11_MissAfterUpdate ==
    \A c \in Calls :
        (FirstCallAfterUpdate(c) /\ getCacheKey(rargs[c].userID, rargs[c].filter) = WarmKey)
            => ~(cacheval[c].present /\ cacheval[c].tasks = Unmarshal(WarmEntry))

\* C12: an item's deadline is its own.  When no item's 30 s pass and the store
\* answers, cancelling the caller's context after the submissions aborts no
\* item: every item that ends has applied its update.
C12_CallerCancelHarmless ==
    \A i \in 1..Len(item) :
        item[i].outcome \in TerminalOutcomes => item[i].outcome = "Applied"

\* C13: with a pool of at least one slot and a finite burst, every submitted
\* item eventually reaches a terminal outcome and leaves the pool, and a Wait
\* that has been called eventually returns.
C13_BurstDrains ==
    /\ \A i \in 1..MaxItems :
          (i <= Len(item)) ~> (i <= Len(item) /\ item[i].pc = "done"
                                 /\ item[i].outcome \in TerminalOutcomes)
    /\ (waitpc = "waiting") ~> (waitpc = "returned")

\* A Wait is blocked while an item waits for a slot of a full pool.
C13_Witness ==
    /\ waitpc = "waiting"
    /\ workerPool = maxWorkers
    /\ \E i \in 1..Len(item) : item[i].pc = "queued"

\* The context of call c was done before either branch had completed: each
\* branch that has run its command ran it on the cancelled context.
CancelledBeforeBranches(c) ==
    /\ rctx[c]
    /\ cachepc[c] # "start" => cacheval[c].err = ErrCache
    /\ dbpc[c] # "start" => dbval[c].err = ErrDB

\* C14: a call whose context is done before either branch has completed
\* returns the context's cancellation error and no task set.
C14_CancelledReturnsCtxErr ==
    \A c \in Calls :
        (rpc[c] = "done" /\ CancelledBeforeBranches(c)) =>
            /\ result[c].err = <<ErrCtx>>
            /\ result[c].tasks = NilSlice

\* The caller of call c sits in a select one of whose cases is ready.
CallerReady(c) ==
    /\ rpc[c] \in {"select1", "select2"}
    /\ \/ rpc[c] = "select1" /\ rctx[c]
       \/ cachepc[c] = "sendT"
       \/ dbpc[c] = "sendT"
       \/ tasksClosed[c]
       \/ ErrChanReady(c)

\* C15: the caller's deadline bounds the call in every state of the race.  A
\* caller that is still in the call once its context is done can return at
\* once, without a branch that has not completed having to complete first,
\* also after one branch has reported a miss or a failure.
C15_DeadlineBoundsRace ==
    \A c \in Calls :
        (rctx[c] /\ rpc[c] \in {"select1", "select2"}) => CallerReady(c)

\* ------------------------------------------------------------- properties of dispatch
\* The number of work items dispatched for the task with this id.
Dispatched(id) == Cardinality({i \in 1..Len(item) : item[i].task.ID = id})

\* The positions of the batch's id list whose lookup did not lead to an item.
NotDispatched == {k \in 1..Len(bids) : Dispatched(bids[k]) = 0}

\* C16: a failed lookup is one failure and aborts nothing.  When a batch on a
\* live context has returned, every id was dealt with by its batch goroutine,
\* each id whose lookup succeeded has exactly one work item, and the aggregate
\* error counts exactly the ids whose lookup failed.
C16_LookupFailureIsolated ==
    (bpc = "done" /\ ~wctx) =>
        /\ \A g \in 1..Len(group) : group[g].idx = Len(group[g].ids) + 1
        /\ \A k \in 1..Len(bids) : Dispatched(bids[k]) <= 1
        /\ Len(bErrors) = Cardinality(NotDispatched)
        /\ bret = IF NotDispatched = {} THEN ErrNil ELSE ToString(Cardinality(NotDispatched))

\* The first lookup of the batch of two failed, the second was dispatched, and
\* the batch returned the count one.
C16_Witness ==
    /\ bpc = "done" /\ ~wctx
    /\ bret = "1"
    /\ Dispatched(1) = 0 /\ Dispatched(2) = 1 /\ Dispatched(3) = 1

\* The work items whose goroutine has not yet called wg.Done.
Outstanding == {i \in 1..Len(item) : item[i].pc # "done"}

\* C17: when BatchProcessTasks has returned, every batch goroutine has finished,
\* every dispatched item is counted in the outstanding-work counter whether or
\* not it has reached a terminal state, and the return value is nil exactly
\* when no lookup error and no context error was reported.
C17_ReturnAfterDispatch ==
    bpc = "done" =>
        /\ \A g \in 1..Len(group) : group[g].pc = "done"
        /\ wg = Cardinality(Outstanding)
        /\ bret = ErrNil <=> \A g \in 1..Len(group) : group[g].err = ErrNil
        /\ bret = ErrNil => \A k \in 1..Len(bids) : Dispatched(bids[k]) = 1

\* The batch has returned nil while none of its three items has been admitted.
C17_Witness ==
    /\ bpc = "done" /\ bret = ErrNil
    /\ Len(item) = Len(bids)
    /\ \A i \in 1..Len(item) : item[i].pc = "queued"
    /\ wg = Len(bids)

\* ------------------------------------------------------------- properties of the partition
\* The ids of the groups g..Len(group), one group after the other.
RECURSIVE GroupsFrom(_)
GroupsFrom(g) ==
    IF g > Len(group) THEN <<>> ELSE group[g].ids \o GroupsFrom(g + 1)

GroupSizes == [g \in 1..Len(group) |-> Len(group[g].ids)]

\* C18: a list of n ids and a batch size b >= 1 give ceil(n/b) consecutive
\* groups whose concatenation is the list; every group has b ids except the
\* last, which has between 1 and b; five ids with b = 2 give sizes 2, 2, 1.
C18_Partition ==
    bpc # "idle" =>
        /\ Len(group) * bsize >= Len(bids)
        /\ (Len(group) - 1) * bsize < Len(bids)
        /\ GroupsFrom(1) = bids
        /\ \A g \in 1..Len(group) :
              IF g < Len(group) THEN GroupSizes[g] = bsize
                                ELSE GroupSizes[g] \in 1..bsize
        /\ (Len(bids) = 5 /\ bsize = 2) => GroupSizes = <<2, 2, 1>>

\* Five ids have been partitioned with batch size two.
C18_Witness ==
    /\ bpc # "idle"
    /\ Len(bids) = 5 /\ bsize = 2
    /\ Len(group) = 3
    /\ Len(group[3].ids) = 1

\* C19: when every id names a task, the store answers and no item times out,
\* BatchProcessTasks returns nil with exactly one item dispatched per id, and
\* once a Wait called after it has returned, every one of the tasks is
\* completed in the store with a completion timestamp.
C19_BatchCompletesAll ==
    bpc = "done" =>
        /\ bret = ErrNil
        /\ \A k \in 1..Len(bids) : Dispatched(bids[k]) = 1
        /\ waitpc = "returned" =>
              \A k \in 1..Len(bids) :
                  /\ db[bids[k]].Status = StatusCompleted
                  /\ db[bids[k]].CompletedAt # Nil

\* The batch of five has returned and the Wait after it has returned.
C19_Witness ==
    /\ bpc = "done" /\ waitpc = "returned"
    /\ Len(bids) = 5 /\ Len(item) = 5
    /\ \A i \in 1..Len(item) : item[i].outcome = "Applied"

\* ------------------------------------------------------------- properties of one item
\* The steps of an item's goroutine, in their only order: submitted, admitted
\* to a slot and processing, terminal, slot released, counted as done.
StageOrder ==
    {<<"queued", "processing">>, <<"processing", "terminal">>,
     <<"terminal", "released">>, <<"released", "done">>}

\* The repo.Update calls made for the items 1..n.
RECURSIVE UpdateCalls(_)
UpdateCalls(n) == IF n = 0 THEN 0 ELSE item[n].updates + UpdateCalls(n - 1)

NotTimedOut == {i \in 1..Len(item) : item[i].outcome # "TimedOut"}

\* C20: no item is retried.  An item only ever moves to the next stage and its
\* outcome, once set, stays; it has made one Update call when its outcome is
\* Applied or Failed and none otherwise; and when a Wait that covers every
\* submitted item has returned, the number of Update calls is the number of
\* items that did not time out.
C20_NoRetry ==
    /\ [](\A i \in 1..Len(item) :
             item[i].updates = IF item[i].outcome \in {"Applied", "Failed"} THEN 1 ELSE 0)
    /\ []((waitpc = "returned" /\ waitSeen = 1..Len(item)) =>
             UpdateCalls(Len(item)) = Cardinality(NotTimedOut))
    /\ [][\A i \in 1..Len(item) :
             /\ item'[i].pc # item[i].pc => <<item[i].pc, item'[i].pc>> \in StageOrder
             /\ item[i].outcome # "none" => item'[i].outcome = item[i].outcome]_vars

\* A Wait over three items has returned: one applied its update, one had its
\* update fail and one timed out.
C20_Witness ==
    /\ waitpc = "returned" /\ waitSeen = 1..Len(item)
    /\ {item[i].outcome : i \in 1..Len(item)} = TerminalOutcomes
    /\ UpdateCalls(Len(item)) = 2

\* ------------------------------------------------------------- properties of a timed-out item
\* C21: an item that takes the deadline case ends TimedOut without a store
\* update (the table is as it was and the item has made no Update call), gives
\* back its slot and its registration in the counter, and keeps no sibling
\* from ending: every sibling ends, and Applied unless its own deadline passed.
C21_TimeoutIsolated ==
    /\ [][\A i \in 1..Len(item) :
             (item[i].outcome = "none" /\ item'[i].outcome = "TimedOut") =>
                 /\ db' = db
                 /\ item'[i].updates = 0]_vars
    /\ [](workerPool = Cardinality(Processing) /\ wg = Cardinality(Outstanding))
    /\ [](\A i \in 1..Len(item) : item[i].outcome \in {"none", "Applied", "TimedOut"})
    /\ \A i \in 1..MaxItems :
          (i <= Len(item) /\ item[i].outcome = "TimedOut")
              ~> (\A j \in 1..Len(item) : item[j].pc = "done")

\* On a pool of one slot the first item timed out and the item admitted after
\* it applied its update.
C21_Witness ==
    /\ maxWorkers = 1
    /\ Len(item) >= 2
    /\ item[1].outcome = "TimedOut" /\ item[1].pc = "done"
    /\ item[2].outcome = "Applied"

\* ------------------------------------------------------------- properties of the cache key
\* The inputs the key is meant to be a function of.
KeyFields(a) ==
    <<a.userID, a.filter.Status, a.filter.Priority, a.filter.Limit, a.filter.Offset>>

\* C22: the keys of two calls are equal exactly when the calls have the same
\* owner and their filters agree on status, priority, limit and offset.
C22_KeyInjective ==
    \A c, d \in Calls :
        (rpc[c] # "idle" /\ rpc[d] # "idle") =>
            (getCacheKey(rargs[c].userID, rargs[c].filter)
                 = getCacheKey(rargs[d].userID, rargs[d].filter)
               <=> KeyFields(rargs[c]) = KeyFields(rargs[d]))

C24_DetachedFromCaller ==
    /\ \A c \in Calls : refill[c].pc # "failed"
    /\ \A i \in 1..Len(inval) :
          inval[i].pc = "done" => inval[i].ok

\* ------------------------------------------------------------- properties of the writers
ErrNotFound == "task not found with id"

\* The repository call of service call k finds no row: Update after the read
\* of UpdateTask, or Delete at either of its two statements.
FindsNoRow(k) ==
    \/ op[k].pc = "found" /\ op[k].task.ID \notin DOMAIN db
    \/ op[k].pc = "idle" /\ op'[k].kind = "delete" /\ op'[k].pc = "done"

\* C25: an Update or a Delete that finds no row returns the not-found error
\* and changes neither the table nor the cache's pending invalidations; no
\* step brings a deleted row back; and invalidations are started by the calls
\* that succeeded and by no other.
C25_NotFoundNoEffect ==
    /\ [][\A k \in DOMAIN op :
             (op'[k] # op[k] /\ FindsNoRow(k)) =>
                 /\ op'[k].pc = "done" /\ op'[k].err = ErrNotFound
                 /\ db' = db
                 /\ inval' = inval]_vars
    /\ [][DOMAIN db' \subseteq DOMAIN db]_vars
    /\ [](Len(inval) = Cardinality({k \in DOMAIN op :
                                       op[k].pc = "done" /\ op[k].err = ErrNil}))

\* A DeleteTask removed the row between the read and the write of an
\* UpdateTask, which ended with the not-found error.
C25_Witness ==
    \E k, j \in DOMAIN op :
        /\ op[k].kind = "update" /\ op[k].pc = "done" /\ op[k].err = ErrNotFound
        /\ op[j].kind = "delete" /\ op[j].pc = "done" /\ op[j].err = ErrNil
        /\ DOMAIN db = {}
        /\ Len(inval) = 1

\* C26: no task of the table that is not completed carries a completion
\* timestamp: an UpdateTask that takes a completed task to another status
\* clears the timestamp of the earlier completion.
C26_NoStaleTimestamp ==
    \A id \in DOMAIN db :
        db[id].Status # StatusCompleted => db[id].CompletedAt = Nil

\* ------------------------------------------------------------- properties of the goroutines
\* C27: once a call has returned, its cache branch, its store branch and its
\* channel closer all eventually end, and the read lock is given back,
\* whichever way the call returned.
C27_GoroutinesEnd ==
    \A c \in Calls :
        (rpc[c] = "done")
            ~> (/\ cachepc[c] = "done"
                /\ dbpc[c] = "done"
                /\ closerpc[c] = "done"
                /\ muReaders = 0)

\* C28: a call that returns a nil error returns the task set one of its own
\* branches produced, the content of its cache hit or the result of its
\* successful store query; a miss followed by a failed store query is
\* therefore never a success.
C28_SuccessHasSource ==
    \A c \in Calls :
        (rpc[c] = "done" /\ result[c].err = Nil) =>
            \/ CacheHit(c) /\ result[c].tasks = cacheval[c].tasks
            \/ DBSucceeded(c) /\ result[c].tasks = dbval[c].tasks

\* ------------------------------------------------------------- properties of cached entries
\* C29: the task set a call returns from a cache hit was stored by the
\* write-back of a store query for the same owner and a filter equal in every
\* field, the date range included.
C29_HitMatchesFilter ==
    \A c \in Calls :
        (rpc[c] = "done" /\ result[c].err = Nil
            /\ CacheHit(c) /\ result[c].tasks = cacheval[c].tasks) =>
            \E d \in Calls :
                /\ rargs[d] = rargs[c]
                /\ refill[d].pc = "stored"
                /\ Unmarshal(Marshal(refill[d].tasks)) = cacheval[c].tasks

\* ------------------------------------------------------------- properties of concurrent writers
\* C30: a work item writes the status and the completion timestamp only.  The
\* title and the priority an UpdateTask has committed (the one service call
\* that writes them) are the ones in the table afterwards, whatever items are
\* applied to the task before or after it.
C30_ItemKeepsOtherFields ==
    \A k \in DOMAIN op :
        (op[k].pc = "done" /\ op[k].kind = "update" /\ op[k].err = ErrNil
            /\ op[k].task.ID \in DOMAIN db) =>
            /\ db[op[k].task.ID].Title = op[k].task.Title
            /\ db[op[k].task.ID].Priority = op[k].task.Priority

\* ------------------------------------------------------------- C31
\* C31: a resolve call for owner O never returns a task of another owner,
\* whether the list comes from the cache or from the store, and no cache entry
\* under a key of O holds a task of another owner.
C31_OwnerIsolation ==
    /\ \A c \in Calls :
          result[c].err = Nil =>
            \A n \in 1..Len(result[c].tasks.elems) :
               result[c].tasks.elems[n].UserID = rargs[c].userID
    /\ \A key \in DOMAIN cache, o \in Owners :
          MatchesUserPattern(key, o) =>
            \A n \in 1..Len(cache[key].arr) : cache[key].arr[n].UserID = o

\* Owner u2's call has returned u2's task from the cache, the store branch
\* still holding its own answer, while an entry of owner u1 is cached and a
\* task has been renamed.
C31_Witness ==
    \E c \in Calls :
       /\ rpc[c] = "done" /\ rargs[c].userID = "u2"
       /\ result[c].err = Nil /\ Len(result[c].tasks.elems) = 1
       /\ cachepc[c] = "done" /\ cacheval[c].present /\ dbpc[c] # "done"
       /\ \E key \in DOMAIN cache : MatchesUserPattern(key, "u1")
       /\ Len(inval) > 0

\* ------------------------------------------------------------- C32
\* C32: when the invalidation started by a mutation of owner O's task has
\* ended, no entry under a key with O's prefix is left in the cache, and the
\* entries of an owner none of whose tasks was mutated are what they were.
C32_InvalidationFrame ==
    /\ \A i \in 1..Len(inval) :
          inval[i].pc = "done" =>
            \A key \in DOMAIN cache : ~MatchesUserPattern(key, inval[i].owner)
    /\ \A o \in Owners :
          (\A i \in 1..Len(inval) : inval[i].owner # o) =>
            \A f \in Filters :
               /\ getCacheKey(o, f) \in DOMAIN cache
               /\ cache[getCacheKey(o, f)] = OwnersCache[getCacheKey(o, f)]

\* ------------------------------------------------------------- C33
\* C33: when BatchProcessTasks has returned, the count in its aggregate error
\* is the number of input ids for which no work item was dispatched (and it
\* returns nil when every id was dispatched), also after a cancellation of the
\* caller's context.
C33_CountIsUndispatched ==
    bpc = "done" =>
      bret = (IF NotDispatched = {} THEN ErrNil ELSE ToString(Cardinality(NotDispatched)))

\* ------------------------------------------------------------- C34
\* C34: the occupied slots are the items in Processing; an item gives its
\* slot back before its registration in the counter; and at the step at which
\* Wait returns every slot is free, the counter is zero and every submitted
\* item has ended.
C34_SlotBeforeCounter ==
    /\ [](workerPool = Cardinality(Processing))
    /\ [][\A i \in 1..Len(item) :
             (item[i].pc # "done" /\ item'[i].pc = "done") =>
                 /\ i \notin Processing
                 /\ workerPool' = Cardinality(Processing)]_vars
    /\ [][(waitpc # "returned" /\ waitpc' = "returned") =>
             /\ workerPool' = 0 /\ wg' = 0
             /\ \A i \in 1..Len(item') : item'[i].pc = "done"]_vars

\* Wait has returned after three items went through a pool of one slot.
C34_Witness ==
    /\ waitpc = "returned"
    /\ maxWorkers = 1
    /\ Len(item) = 3 /\ waitSeen = 1..3
    /\ workerPool = 0 /\ wg = 0

\* ------------------------------------------------------------- C35
\* C35: no goroutine of a resolve call sends on a closed channel.  While
\* tasksChan or errChan is closed both branches are past their send; a branch
\* ends by one send, on tasksChan (taken by the caller) or on errChan (one more
\* buffered error), never both; and a branch that has ended sends nothing more.
C35_NoSendOnClosed ==
    /\ [](\A c \in Calls :
            (tasksClosed[c] \/ errClosed[c]) => cachepc[c] = "done" /\ dbpc[c] = "done")
    /\ [][\A c \in Calls :
             /\ (cachepc[c] # "done" /\ cachepc'[c] = "done") =>
                   \/ /\ cachepc[c] = "sendT" /\ errBuf'[c] = errBuf[c]
                      /\ rpc'[c] = "done" /\ result'[c].tasks = cacheval[c].tasks
                   \/ /\ cachepc[c] = "sendE" /\ errBuf'[c] = Append(errBuf[c], cacheval[c].err)
                      /\ result'[c] = result[c]
             /\ (dbpc[c] # "done" /\ dbpc'[c] = "done") =>
                   \/ /\ dbpc[c] = "sendT" /\ errBuf'[c] = errBuf[c]
                      /\ rpc'[c] = "done" /\ result'[c].tasks = dbval[c].tasks
                   \/ /\ dbpc[c] = "sendE" /\ errBuf'[c] = Append(errBuf[c], dbval[c].err)
                      /\ result'[c] = result[c]
             /\ (cachepc[c] = "done" => cachepc'[c] = "done")
             /\ (dbpc[c] = "done" => dbpc'[c] = "done")
             /\ (cachepc[c] = "done" /\ dbpc[c] = "done" => Len(errBuf'[c]) <= Len(errBuf[c]))]_vars

\* Both channels are closed after the cache branch sent its hit on tasksChan
\* and the store branch its error on errChan.
C35_Witness ==
    \E c \in Calls :
       /\ tasksClosed[c] /\ errClosed[c]
       /\ CacheBranchHit(cacheval[c])
       /\ dbval[c].err = ErrDB
       /\ rpc[c] = "done"

\* ------------------------------------------------------------- C36
\* The ids of the request the caller may not process: no row, or the row of
\* another user.
DeniedIds == {n \in 1..Len(hreq.ids) :
                 FindByID(db, hreq.ids[n]) = Nil \/ FindByID(db, hreq.ids[n])[1].UserID # hreq.user}

\* C36: the batch endpoint dispatches all or nothing.  Ids are passed to
\* BatchProcessTasks only when the handler answered Accepted, and then every
\* id of the request is passed, in one call, and none of them is missing or
\* another user's; when an id is missing or another user's and no lookup
\* failed before it, the answer is Forbidden, and when none is, Accepted.
C36_AllOrNothing ==
    /\ bpc # "idle" =>
          /\ hreq.resp = "Accepted" /\ bids = hreq.ids /\ bsize = hreq.size
          /\ DeniedIds = {}
    /\ hreq.resp = "Forbidden" => DeniedIds # {} /\ bpc = "idle"
    /\ hreq.resp \in {"InternalServerError", "BadRequest"} => bpc = "idle"
    /\ hreq.resp = "Accepted" => DeniedIds = {} /\ hreq.ids # <<>>
    /\ hreq.pc = "done" /\ hreq.resp \notin {"InternalServerError", "BadRequest"} =>
          hreq.resp = "Forbidden"

\* u1 asked for its own task and then u2's: the first id passed the
\* validation, the second was refused, and nothing was dispatched.
C36_Witness ==
    /\ hreq.pc = "done" /\ hreq.resp = "Forbidden"
    /\ hreq.user = "u1" /\ hreq.ids = <<1, 2>> /\ hreq.idx = 2
    /\ bpc = "idle"

\* ------------------------------------------------------------- C37
\* The requests INCR counted in the g-th life of the client's key, and those
\* of them the middleware passed on or aborted with 429.
CountedIn(g) == {r \in 1..Len(limiter.req) : limiter.req[r].gen = g}
PassedIn(g) == {r \in CountedIn(g) : limiter.req[r].out = "Next"}
RefusedIn(g) == {r \in CountedIn(g) : limiter.req[r].out = "TooManyRequests"}

\* C37: of the requests counted between a creation of the client's key and
\* its expiry, at most `limit` are passed to the next handler, whatever the
\* interleaving; the requests counted after the limit-th are never passed, and
\* once they have all been answered each of them was aborted with 429.
C37_AtMostLimit ==
    \A g \in 1..limiter.gen :
       /\ Cardinality(PassedIn(g)) <= RateLimitRequests
       /\ \A r \in CountedIn(g) :
             limiter.req[r].current > RateLimitRequests => limiter.req[r].out # "Next"
       /\ (\A r \in CountedIn(g) : limiter.req[r].pc = "done") =>
             /\ Cardinality(RefusedIn(g)) + Cardinality(PassedIn(g)) = Cardinality(CountedIn(g))
             /\ Cardinality(CountedIn(g)) > RateLimitRequests =>
                   Cardinality(PassedIn(g)) = RateLimitRequests

\* The first key counted one request more than the limit: `limit` were
\* passed and one was aborted; the key then expired and a new one counts the
\* next request.
C37_Witness ==
    /\ limiter.gen = 2
    /\ Cardinality(PassedIn(1)) = RateLimitRequests
    /\ Cardinality(RefusedIn(1)) = 1
    /\ CountedIn(2) # {}

====
